---- MODULE Spec2Model ----
(***************************************************************************)
(* Model of the quick-add parser parseQuickAddRu (src/parsers/quickAddRu)  *)
(* and of its date helpers.                                                *)
(*                                                                         *)
(* TEXT.  A text is a sequence of atoms.  An atom is a record              *)
(* [w |-> word, c |-> case]: one whitespace character, one punctuation     *)
(* character, one decimal digit, or one word written in a single script    *)
(* (ASCII letters only, or Cyrillic letters only).  c is the letter case   *)
(* of a word: 0 lower, 1 first letter upper, 2 all upper.  Cyrillic words  *)
(* are written in transliteration, the table is:                           *)
(*   v=в vo=во segodnya=сегодня zavtra=завтра poslezavtra=послезавтра      *)
(*   cherez=через dn=дн dne=дне dnyo=днё dnya=дня dny=днй dney=дней        *)
(*   kazhdyy=каждый kazhduyu=каждую kazhdoe=каждое kazhdye=каждые          *)
(*   den=день nedelyu=неделю mesyac=месяц chas=час chasa=часа chaso=часо   *)
(*   (chaso followed by v is часов) chisl=числ chislo=число chisla=числа   *)
(*   vtoroy=второй kazhdoy=каждой nedeli=недели utrom=утром dnem=днем      *)
(*   dnyom=днём vecherom=вечером nochyu=ночью srochno=срочно vazhno=важно  *)
(*   voskresenye=воскресенье ponedelnik=понедельник vtornik=вторник        *)
(*   sredu=среду sreda=среда chetverg=четверг pyatnicu=пятницу             *)
(*   pyatnica=пятница subbotu=субботу subbota=суббота                      *)
(*   moloko=молоко zh=ж                                                    *)
(* Inside an atom the class of the characters does not change, so a JS     *)
(* word boundary \b (ASCII [A-Za-z0-9_] against anything else) can only    *)
(* fall between two atoms, and no word of the vocabulary ends in the       *)
(* letter в except v itself, so no pattern can match from inside an atom.  *)
(*                                                                         *)
(* TIME.  An instant is [d |-> day, t |-> ms], d the number of days since  *)
(* 2024-01-01 and t the milliseconds since the start of that day, in UTC   *)
(* (the tests and the container run with local time = UTC).                *)
(***************************************************************************)
EXTENDS Integers, Sequences, FiniteSets, TLC


\* ------------------------------------------------------------------------
\* Atoms and character classes
\* ------------------------------------------------------------------------

A(w) == [w |-> w, c |-> 0]
Cap(w) == [w |-> w, c |-> 1]
Up(w) == [w |-> w, c |-> 2]
SP == A(" ")

Digit == {"0", "1", "2", "3", "4", "5", "6", "7", "8", "9"}

DigitVal == [x \in Digit |->
  CASE x = "0" -> 0 [] x = "1" -> 1 [] x = "2" -> 2 [] x = "3" -> 3
    [] x = "4" -> 4 [] x = "5" -> 5 [] x = "6" -> 6 [] x = "7" -> 7
    [] x = "8" -> 8 [] x = "9" -> 9]

Whitespace == {" "}

Punct == {"!", "+", "*", "\"", ":", "-"}

\* words written in Cyrillic letters (not word characters for \b)
CyrWords == {"v", "vo", "segodnya", "zavtra", "poslezavtra", "cherez", "dn",
  "dne", "dnyo", "dnya", "dny", "dney", "kazhdyy", "kazhduyu", "kazhdoe",
  "kazhdye", "den", "nedelyu", "mesyac", "chas", "chasa", "chaso", "chisl",
  "chislo", "chisla", "vtoroy", "kazhdoy", "nedeli", "utrom", "dnem",
  "dnyom", "vecherom", "nochyu", "srochno", "vazhno", "voskresenye",
  "ponedelnik", "vtornik", "sredu", "sreda", "chetverg", "pyatnicu",
  "pyatnica", "subbotu", "subbota", "moloko", "zh"}

\* \w of a JS regular expression without the u flag: [A-Za-z0-9_]
IsWordAtom(a) == a.w \notin Whitespace /\ a.w \notin Punct /\ a.w \notin CyrWords

IsSpaceAtom(a) == a.w \in Whitespace

IsDigitAtom(a) == a.w \in Digit

\* [^\s!+*"]
IsTokenAtom(a) == a.w \notin Whitespace /\ a.w \notin {"!", "+", "*", "\""}

\* [^"]
IsNonQuoteAtom(a) == a.w # "\""

HasCase(a) == a.w \notin Whitespace /\ a.w \notin Punct /\ a.w \notin Digit

\* String.prototype.toLowerCase, atom by atom
toLowerCase(s) == [i \in 1..Len(s) |-> [s[i] EXCEPT !.c = 0]]

\* String.prototype.toUpperCase of one character followed by the rest
UpperFirst(a) == IF HasCase(a) /\ a.c = 0 THEN [a EXCEPT !.c = 1] ELSE a

\* String.prototype.trim
RECURSIVE trimLeft(_)
trimLeft(s) ==
  IF s # <<>> /\ IsSpaceAtom(Head(s)) THEN trimLeft(Tail(s)) ELSE s

RECURSIVE trimRight(_)
trimRight(s) ==
  IF s # <<>> /\ IsSpaceAtom(s[Len(s)]) THEN trimRight(SubSeq(s, 1, Len(s) - 1)) ELSE s

trim(s) == trimRight(trimLeft(s))

\* parseInt(digits, 10) of a run of digit atoms
RECURSIVE parseInt(_)
parseInt(s) ==
  IF s = <<>> THEN 0 ELSE 10 * parseInt(SubSeq(s, 1, Len(s) - 1)) + DigitVal[s[Len(s)].w]

\* ------------------------------------------------------------------------
\* Regular expressions over atoms
\* ------------------------------------------------------------------------

\* pattern elements
El(k, s, lo, hi, p) == [k |-> k, s |-> s, lo |-> lo, hi |-> hi, p |-> p]
\* \b
B == El("b", {}, 0, 0, <<>>)
\* one of the words of s, letter case ignored (flag i), not captured
Wd(s) == El("w", s, 0, 0, <<>>)
\* the same, captured
WdC(s) == El("W", s, 0, 0, <<>>)
\* \s+
Ws == El("s", {}, 1, 0, <<>>)
\* (\d{lo,hi}), hi = 0 for no upper limit
Dg(lo, hi) == El("d", {}, lo, hi, <<>>)
\* (?:p)?
Opt(p) == El("o", {}, 0, 0, p)
\* (?!x) for one character x of s
NotAhead(s) == El("n", s, 0, 0, <<>>)
\* ([^\s!+*"]+)
Tok == El("t", {}, 1, 0, <<>>)
\* ([^"]+)
NQ == El("q", {}, 1, 0, <<>>)

Fail == [ok |-> FALSE, e |-> 0, c |-> <<>>]

IsWordAt(t, i) == i >= 1 /\ i <= Len(t) /\ IsWordAtom(t[i])

\* \b at the gap before atom pos
Boundary(t, pos) == IsWordAt(t, pos - 1) # IsWordAt(t, pos)

ElClass(el, a) ==
  CASE el.k = "s" -> IsSpaceAtom(a)
    [] el.k = "d" -> IsDigitAtom(a)
    [] el.k = "t" -> IsTokenAtom(a)
    [] el.k = "q" -> IsNonQuoteAtom(a)
    [] OTHER -> FALSE

RECURSIVE RunLen(_, _, _)
RunLen(t, el, pos) ==
  IF pos <= Len(t) /\ ElClass(el, t[pos]) THEN 1 + RunLen(t, el, pos + 1) ELSE 0

Min(a, b) == IF a < b THEN a ELSE b
Max(a, b) == IF a > b THEN a ELSE b

\* backtracking matcher: the match of pat[i..] that starts at atom pos, as
\* the engine finds it (greedy quantifiers, first alternative first)
RECURSIVE Try(_, _, _, _)
RECURSIVE TryRep(_, _, _, _, _)
Try(t, pat, i, pos) ==
  IF i > Len(pat) THEN [ok |-> TRUE, e |-> pos, c |-> <<>>]
  ELSE LET el == pat[i] IN
    CASE el.k = "b" -> IF Boundary(t, pos) THEN Try(t, pat, i + 1, pos) ELSE Fail
      [] el.k = "n" ->
           IF pos <= Len(t) /\ t[pos].w \in el.s THEN Fail ELSE Try(t, pat, i + 1, pos)
      [] el.k = "w" ->
           IF pos <= Len(t) /\ t[pos].w \in el.s THEN Try(t, pat, i + 1, pos + 1) ELSE Fail
      [] el.k = "W" ->
           IF pos <= Len(t) /\ t[pos].w \in el.s
           THEN LET r == Try(t, pat, i + 1, pos + 1) IN
                IF r.ok THEN [r EXCEPT !.c = <<<<pos, pos>>>> \o r.c] ELSE Fail
           ELSE Fail
      [] el.k = "o" ->
           LET with == Try(t, el.p \o SubSeq(pat, i + 1, Len(pat)), 1, pos) IN
           IF with.ok THEN with ELSE Try(t, pat, i + 1, pos)
      [] OTHER ->
           LET n == RunLen(t, el, pos)
               k == IF el.hi = 0 THEN n ELSE Min(n, el.hi)
           IN TryRep(t, pat, i, pos, k)

TryRep(t, pat, i, pos, k) ==
  IF k < pat[i].lo THEN Fail
  ELSE LET r == Try(t, pat, i + 1, pos + k) IN
       IF r.ok
       THEN IF pat[i].k = "s" THEN r ELSE [r EXCEPT !.c = <<<<pos, pos + k - 1>>>> \o r.c]
       ELSE TryRep(t, pat, i, pos, k - 1)

\* the leftmost match at or after atom from: [ok, s (first atom), e (atom
\* after the last), c (captured ranges)]
RECURSIVE FindFrom(_, _, _)
FindFrom(t, pat, from) ==
  IF from > Len(t) + 1 THEN [ok |-> FALSE, s |-> 0, e |-> 0, c |-> <<>>]
  ELSE LET r == Try(t, pat, 1, from) IN
       IF r.ok THEN [ok |-> TRUE, s |-> from, e |-> r.e, c |-> r.c]
       ELSE FindFrom(t, pat, from + 1)

\* String.prototype.match(re) / re.exec for a regex without the g flag
match(t, pat) == FindFrom(t, pat, 1)

\* RegExp.prototype.test
test(t, pat) == match(t, pat).ok

\* captured group n of a match, as text
Group(t, m, n) == SubSeq(t, m.c[n][1], m.c[n][2])

\* String.prototype.replace(re, ' ') for a regex without the g flag
replace(t, pat) ==
  LET m == match(t, pat) IN
  IF m.ok THEN SubSeq(t, 1, m.s - 1) \o <<SP>> \o SubSeq(t, m.e, Len(t)) ELSE t

\* the captured group 1 of every match of a regex with the g flag, left to
\* right (the exec loop), trimmed
RECURSIVE execAll(_, _, _)
execAll(t, pat, from) ==
  LET m == FindFrom(t, pat, from) IN
  IF m.ok THEN <<trim(Group(t, m, 1))>> \o execAll(t, pat, m.e) ELSE <<>>

\* String.prototype.replace(re, ' ') for a regex with the g flag
RECURSIVE replaceAll(_, _, _)
replaceAll(t, pat, from) ==
  LET m == FindFrom(t, pat, from) IN
  IF m.ok
  THEN SubSeq(t, from, m.s - 1) \o <<SP>> \o replaceAll(t, pat, m.e)
  ELSE SubSeq(t, from, Len(t))

\* ------------------------------------------------------------------------
\* Dates (date-fns and Date, local time = UTC)
\* ------------------------------------------------------------------------

MsPerSecond == 10 * 100
MsPerMinute == 60 * MsPerSecond
MsPerHour == 60 * MsPerMinute
MsPerDay == 24 * MsPerHour

\* the year of day number 0
EpochYear == 2024

Instant(d, t) == [d |-> d, t |-> t]

\* a Date built from a day and a possibly out-of-range time carries over
Norm(d, t) == Instant(d + (t \div MsPerDay), t % MsPerDay)

IsLeap(y) == y % 4 = 0 /\ (y % 100 # 0 \/ y % 400 = 0)

\* days of month m (0 = January, as Date.getMonth) of year y
DaysIn(y, m) ==
  IF m = 1 THEN (IF IsLeap(y) THEN 29 ELSE 28)
  ELSE IF m \in {3, 5, 8, 10} THEN 30 ELSE 31

\* [y, m, day] of day number d >= 0, walking the months from the epoch
RECURSIVE Walk(_, _, _)
Walk(y, m, d) ==
  IF d < DaysIn(y, m) THEN [y |-> y, m |-> m, day |-> d + 1]
  ELSE IF m = 11 THEN Walk(y + 1, 0, d - DaysIn(y, m))
  ELSE Walk(y, m + 1, d - DaysIn(y, m))

YMD(d) == Walk(EpochYear, 0, d)

getFullYear(x) == YMD(x.d).y
getMonth(x) == YMD(x.d).m
getDate(x) == YMD(x.d).day
\* 2024-01-01, day number 0, is a Monday (getDay 1)
getDay(x) == (x.d + 1) % 7
getHours(x) == x.t \div MsPerHour
getMinutes(x) == (x.t % MsPerHour) \div MsPerMinute
getSeconds(x) == (x.t % MsPerMinute) \div MsPerSecond
getMilliseconds(x) == x.t % MsPerSecond

\* day number of the first day of month m of year y >= EpochYear
RECURSIVE MonthStart(_, _)
MonthStart(y, m) ==
  IF y = EpochYear /\ m = 0 THEN 0
  ELSE IF m = 0 THEN MonthStart(y - 1, 11) + DaysIn(y - 1, 11)
  ELSE MonthStart(y, m - 1) + DaysIn(y, m - 1)

\* new Date(y, m, day): midnight; a day outside the month carries over
NewDate(y, m, day) == Instant(MonthStart(y, m) + day - 1, 0)

getDaysInMonth(x) == DaysIn(getFullYear(x), getMonth(x))
startOfDay(x) == Instant(x.d, 0)
addDays(x, n) == Instant(x.d + n, x.t)
isBefore(a, b) == a.d < b.d \/ (a.d = b.d /\ a.t < b.t)

\* date-fns addMonths: same day of the later month, or its last day
addMonths(x, n) ==
  LET c == YMD(x.d)
      k == c.m + n
      y == c.y + (k \div 12)
      m == k % 12
  IN Instant(MonthStart(y, m) + Min(c.day, DaysIn(y, m)) - 1, x.t)

setHours(x, h) == Norm(x.d, h * MsPerHour + (x.t % MsPerHour))
setMinutes(x, m) == Norm(x.d, (x.t \div MsPerHour) * MsPerHour + m * MsPerMinute + (x.t % MsPerMinute))
setSeconds(x, s) == Norm(x.d, (x.t \div MsPerMinute) * MsPerMinute + s * MsPerSecond + (x.t % MsPerSecond))
setMilliseconds(x, ms) == Norm(x.d, (x.t \div MsPerSecond) * MsPerSecond + ms)

atTime(date, h, m) == setMilliseconds(setSeconds(setMinutes(setHours(date, h), m), 0), 0)

atEndOfDay(date) == atTime(date, 23, 59)

\* Date.toISOString: the fields of YYYY-MM-DDTHH:mm:ss.sssZ (MM is 1-based)
toIso(date) ==
  LET c == YMD(date.d) IN
  <<c.y, c.m + 1, c.day, getHours(date), getMinutes(date), getSeconds(date),
    getMilliseconds(date)>>

\* mutant: allowToday is ignored, today always counts
nextWeekdayDeltaAlwaysToday(fromDay, targetWeekday, allowToday) ==
  LET delta == targetWeekday - fromDay IN
  IF delta < 0 THEN delta + 7 ELSE delta

\* mutant: allowToday is ignored, today never counts
nextWeekdayDeltaNeverToday(fromDay, targetWeekday, allowToday) ==
  LET delta == targetWeekday - fromDay IN
  IF delta <= 0 THEN delta + 7 ELSE delta

\* mutant: a weekday earlier in the week is taken in the current week
nextWeekdayDeltaBackwards(fromDay, targetWeekday, allowToday) ==
  targetWeekday - fromDay

nextWeekdayDelta(fromDay, targetWeekday, allowToday) ==
  LET delta == targetWeekday - fromDay IN
  IF delta < 0 \/ (delta = 0 /\ ~allowToday) THEN delta + 7 ELSE delta

nextWeekday(from, targetWeekday, allowToday) ==
  addDays(startOfDay(from), nextWeekdayDelta(getDay(from), targetWeekday, allowToday))

nearestDayOfMonth(from, day) ==
  LET daysInCurrent == getDaysInMonth(from)
      clampedDay == Min(day, daysInCurrent)
      candidate == NewDate(getFullYear(from), getMonth(from), clampedDay)
      next == addMonths(from, 1)
      daysInNext == getDaysInMonth(next)
  IN IF ~isBefore(candidate, startOfDay(from)) THEN candidate
     ELSE NewDate(getFullYear(next), getMonth(next), Min(day, daysInNext))

ceilToHour(d) ==
  IF getMinutes(d) = 0 /\ getSeconds(d) = 0 THEN d
  ELSE Norm(d.d, (getHours(d) + 1) * MsPerHour)

\* mutant: the rounding acts on the Date it was given
ceilToHourInPlace(d) == ceilToHour(d)

\* the Date given to ceilToHour, after the call: the rounding acts on a
\* copy (new Date(d)), the early return hands the argument back untouched
ceilToHourArgument(d) == d

\* ------------------------------------------------------------------------
\* Constants of the parser
\* ------------------------------------------------------------------------

PRIORITY_MAP == [k \in {"srochno", "urgent", "vazhno", "important"} |->
  IF k \in {"srochno", "urgent"} THEN 5 ELSE 4]

WEEKDAY_MAP == [k \in {"voskresenye", "sunday", "sun", "ponedelnik", "monday",
    "mon", "vtornik", "tuesday", "tue", "sredu", "sreda", "wednesday", "wed",
    "chetverg", "thursday", "thu", "pyatnicu", "pyatnica", "friday", "fri",
    "subbotu", "subbota", "saturday", "sat"} |->
  CASE k \in {"voskresenye", "sunday", "sun"} -> 0
    [] k \in {"ponedelnik", "monday", "mon"} -> 1
    [] k \in {"vtornik", "tuesday", "tue"} -> 2
    [] k \in {"sredu", "sreda", "wednesday", "wed"} -> 3
    [] k \in {"chetverg", "thursday", "thu"} -> 4
    [] k \in {"pyatnicu", "pyatnica", "friday", "fri"} -> 5
    [] k \in {"subbotu", "subbota", "saturday", "sat"} -> 6]

TIME_MARKER_MAP == [k \in {"utrom", "dnem", "dnyom", "vecherom", "nochyu"} |->
  CASE k = "utrom" -> [h |-> 8, m |-> 0]
    [] k \in {"dnem", "dnyom"} -> [h |-> 13, m |-> 0]
    [] k = "vecherom" -> [h |-> 20, m |-> 0]
    [] k = "nochyu" -> [h |-> 23, m |-> 0]]

\* ------------------------------------------------------------------------
\* The regular expressions of parseQuickAddRu
\* ------------------------------------------------------------------------

Ch(x) == Wd({x})

prioNumRe == <<Ch("!"), WdC({"1", "2", "3", "4", "5"}), B>>
prioWordKeys == DOMAIN PRIORITY_MAP
prioWordRe == <<Ch("!"), WdC(prioWordKeys), B>>
projectQuotedRe == <<Ch("+"), Ch("\""), NQ, Ch("\"")>>
projectSimpleRe == <<Ch("+"), Tok>>
labelQuotedRe == <<Ch("*"), Ch("\""), NQ, Ch("\"")>>
labelSimpleRe == <<Ch("*"), Tok>>
explicitTimeRe == <<Opt(<<Ch("v"), Ws>>), Dg(1, 2), Ch(":"), Dg(2, 2), NotAhead(Digit)>>
hourOnlyTimeRe == <<B, Ch("v"), Ws, Dg(1, 2), B, NotAhead({":"})>>
timeMarkerKeys == DOMAIN TIME_MARKER_MAP
timeMarkerRe == <<B, WdC(timeMarkerKeys), B>>
everyDayRe == <<B, Ch("kazhdyy"), Ws, Ch("den"), B>>
everyWeekRe == <<B, Ch("kazhduyu"), Ws, Ch("nedelyu"), B>>
everyMonthRe == <<B, Ch("kazhdyy"), Ws, Ch("mesyac"), B>>
everyHourRe == <<B, Ch("kazhdyy"), Ws, Ch("chas"), B>>
everyNHoursRe == <<B, Ch("kazhdye"), Ws, Dg(1, 0), Ws, Ch("chaso"), Opt(<<Ch("v")>>), B>>
weekdayKeys == DOMAIN WEEKDAY_MAP
everyWeekdayRe == <<B, Wd({"kazhdyy", "kazhduyu", "kazhdoe"}), Ws, WdC(weekdayKeys), B>>
everyDayOfMonthRe == <<B, Ch("kazhdoe"), Ws, Dg(1, 2), Ws, Wd({"chisl", "chislo", "chisla"}), B>>
secondDayOfWeekRe == <<B, Ch("vtoroy"), Ws, Ch("den"), Ws, Ch("kazhdoy"), Ws, Ch("nedeli"), B>>
todayRe == <<B, WdC({"segodnya", "today"}), B>>
tomorrowRe == <<B, WdC({"zavtra", "tomorrow"}), B>>
dayAfterTomorrowRe == <<B, Ch("poslezavtra"), B>>
inNDaysRe == <<B, Ch("cherez"), Ws, Dg(1, 0), Ws, Wd({"dn", "dne", "dnyo", "dnya", "dny"}), B>>
weekdayOnceRe == <<B, Opt(<<Ch("v"), Ws>>), WdC(weekdayKeys), B>>

\* ------------------------------------------------------------------------
\* parseQuickAddRu, stage by stage
\* ------------------------------------------------------------------------

\* an optional field: <<>> when undefined, <<value>> when set
Undefined == <<>>
Some(v) == <<v>>
Val(f) == f[1]

EmptyPatch == [due_date |-> Undefined, priority |-> Undefined,
  project_name |-> Undefined, labels |-> Undefined, repeat_after |-> Undefined,
  repeat_mode |-> Undefined, cleaned_title |-> Undefined]

VARIABLES
  text,          \* argument text
  now,           \* argument now
  remaining,     \* let remaining
  patch,         \* const patch
  parsedHour, parsedMinute, markerHour, markerMinute,
  pc,            \* the stage that runs next
  result,        \* "pending", then "null" (return null) or "patch" (return patch)
  lastIndex,     \* lastIndex of labelQuotedRe and of labelSimpleRe
  history,       \* the calls of parseQuickAddRu that have returned
  http,          \* VikunjaClient.request: the call in progress
  store,         \* the labels of the Vikunja instance
  procs,         \* the webhook deliveries resolving their labels
  hook,          \* handleWebhook: the delivery being handled
  task           \* the task of the Vikunja instance the deliveries are about

\* the state outside parseQuickAddRu
outside == <<history, http, store, procs, hook, task>>

vars == <<text, now, remaining, patch, parsedHour, parsedMinute, markerHour,
          markerMinute, pc, result, lastIndex, outside>>

\* a ?? b
Coalesce(a, b) == IF a # Undefined THEN a ELSE b

\* mutant: the marker wins over the explicit time
effectiveHourMarkerFirst(ph, mh) == Coalesce(mh, ph)

effectiveHourOf(ph, mh) == Coalesce(ph, mh)
effectiveMinuteOf(pm, mm) == Coalesce(pm, mm)

effectiveHour == effectiveHourOf(parsedHour, markerHour)
effectiveMinute == effectiveMinuteOf(parsedMinute, markerMinute)

applyTimeWith(base, eh, em) ==
  IF eh # Undefined /\ em # Undefined THEN atTime(base, Val(eh), Val(em))
  ELSE atEndOfDay(base)

applyTime(base) == applyTimeWith(base, effectiveHour, effectiveMinute)

\* if (!text || text.trim().length === 0) return null
Entry ==
  /\ pc = "entry"
  /\ IF Len(text) = 0 \/ Len(trim(text)) = 0
     THEN /\ result' = "null"
          /\ pc' = "done"
     ELSE /\ result' = result
          /\ pc' = "priority"
  /\ UNCHANGED <<outside, lastIndex, text, now, remaining, patch, parsedHour, parsedMinute,
                 markerHour, markerMinute>>

\* 1. Priority
priorityStage(rem, p) ==
  LET prioNumMatch == match(rem, prioNumRe)
      prioWordMatch == match(rem, prioWordRe)
  IN IF prioNumMatch.ok
     THEN [r |-> replace(rem, prioNumRe),
           p |-> [p EXCEPT !.priority = Some(parseInt(Group(rem, prioNumMatch, 1)))]]
     ELSE IF prioWordMatch.ok
     THEN [r |-> replace(rem, prioWordRe),
           p |-> [p EXCEPT !.priority =
                    Some(PRIORITY_MAP[toLowerCase(Group(rem, prioWordMatch, 1))[1].w])]]
     ELSE [r |-> rem, p |-> p]

Priority ==
  /\ pc = "priority"
  /\ LET o == priorityStage(remaining, patch) IN
     /\ remaining' = o.r
     /\ patch' = o.p
  /\ pc' = "project"
  /\ UNCHANGED <<outside, lastIndex, text, now, parsedHour, parsedMinute, markerHour, markerMinute, result>>

\* mutant: the simple-token project is tried before the quoted one
projectStageSimpleFirst(rem, p) ==
  LET quotedProjMatch == match(rem, projectQuotedRe)
      simpleProjMatch == match(rem, projectSimpleRe)
  IN IF simpleProjMatch.ok
     THEN [r |-> replace(rem, projectSimpleRe),
           p |-> [p EXCEPT !.project_name = Some(trim(Group(rem, simpleProjMatch, 1)))]]
     ELSE IF quotedProjMatch.ok
     THEN [r |-> replace(rem, projectQuotedRe),
           p |-> [p EXCEPT !.project_name = Some(trim(Group(rem, quotedProjMatch, 1)))]]
     ELSE [r |-> rem, p |-> p]

\* 2. Project
projectStage(rem, p) ==
  LET quotedProjMatch == match(rem, projectQuotedRe)
      simpleProjMatch == match(rem, projectSimpleRe)
  IN IF quotedProjMatch.ok
     THEN [r |-> replace(rem, projectQuotedRe),
           p |-> [p EXCEPT !.project_name = Some(trim(Group(rem, quotedProjMatch, 1)))]]
     ELSE IF simpleProjMatch.ok
     THEN [r |-> replace(rem, projectSimpleRe),
           p |-> [p EXCEPT !.project_name = Some(trim(Group(rem, simpleProjMatch, 1)))]]
     ELSE [r |-> rem, p |-> p]

Project ==
  /\ pc = "project"
  /\ LET o == projectStage(remaining, patch) IN
     /\ remaining' = o.r
     /\ patch' = o.p
  /\ pc' = "labels"
  /\ UNCHANGED <<outside, lastIndex, text, now, parsedHour, parsedMinute, markerHour, markerMinute, result>>

\* lastIndex of a regex with the g flag once its exec loop has ended: every
\* match moves it behind the match, the failing exec sets it back to 0
RECURSIVE lastIndexAfter(_, _, _)
lastIndexAfter(t, pat, from) ==
  LET m == FindFrom(t, pat, from) IN
  IF m.ok THEN lastIndexAfter(t, pat, m.e) ELSE 0

\* lastIndex of labelQuotedRe and labelSimpleRe, both created by this call,
\* at the end of the labels stage
labelsLastIndex(rem) ==
  <<lastIndexAfter(rem, labelQuotedRe, 1),
    lastIndexAfter(replaceAll(rem, labelQuotedRe, 1), labelSimpleRe, 1)>>

\* mutant: the simple-token labels come before the quoted ones
labelsStageSimpleFirst(rem, p) ==
  LET quoted == execAll(rem, labelQuotedRe, 1)
      rem1 == replaceAll(rem, labelQuotedRe, 1)
      simple == execAll(rem1, labelSimpleRe, 1)
      rem2 == replaceAll(rem1, labelSimpleRe, 1)
      labels == simple \o quoted
  IN [r |-> rem2,
      p |-> IF Len(labels) > 0 THEN [p EXCEPT !.labels = Some(labels)] ELSE p]

\* 3. Labels
labelsStage(rem, p) ==
  LET quoted == execAll(rem, labelQuotedRe, 1)
      rem1 == replaceAll(rem, labelQuotedRe, 1)
      simple == execAll(rem1, labelSimpleRe, 1)
      rem2 == replaceAll(rem1, labelSimpleRe, 1)
      labels == quoted \o simple
  IN [r |-> rem2,
      p |-> IF Len(labels) > 0 THEN [p EXCEPT !.labels = Some(labels)] ELSE p]

Labels ==
  /\ pc = "labels"
  /\ LET o == labelsStage(remaining, patch) IN
     /\ remaining' = o.r
     /\ patch' = o.p
  /\ lastIndex' = labelsLastIndex(remaining)
  /\ pc' = "time"
  /\ UNCHANGED <<outside, text, now, parsedHour, parsedMinute, markerHour, markerMinute, result>>

\* 4. Explicit time extraction
ExplicitTime ==
  /\ pc = "time"
  /\ LET explicitTimeMatch == match(remaining, explicitTimeRe)
         hourOnlyMatch == match(remaining, hourOnlyTimeRe)
     IN IF explicitTimeMatch.ok
        THEN /\ parsedHour' = Some(parseInt(Group(remaining, explicitTimeMatch, 1)))
             /\ parsedMinute' = Some(parseInt(Group(remaining, explicitTimeMatch, 2)))
             /\ remaining' = replace(remaining, explicitTimeRe)
        ELSE IF hourOnlyMatch.ok
        THEN /\ parsedHour' = Some(parseInt(Group(remaining, hourOnlyMatch, 1)))
             /\ parsedMinute' = Some(0)
             /\ remaining' = replace(remaining, hourOnlyTimeRe)
        ELSE UNCHANGED <<parsedHour, parsedMinute, remaining>>
  /\ pc' = "marker"
  /\ UNCHANGED <<outside, lastIndex, text, now, patch, markerHour, markerMinute, result>>

\* 5. Time-of-day markers
TimeMarker ==
  /\ pc = "marker"
  /\ LET timeMarkerMatch == match(remaining, timeMarkerRe) IN
     IF timeMarkerMatch.ok
     THEN LET key == toLowerCase(Group(remaining, timeMarkerMatch, 1))[1].w
              tm == TIME_MARKER_MAP[key]
          IN /\ markerHour' = Some(tm.h)
             /\ markerMinute' = Some(tm.m)
             /\ remaining' = replace(remaining, timeMarkerRe)
     ELSE UNCHANGED <<markerHour, markerMinute, remaining>>
  /\ pc' = "recur"
  /\ UNCHANGED <<outside, lastIndex, text, now, patch, parsedHour, parsedMinute, result>>

\* mutant: the weekly keyword is tried before the daily one
recurStageWeeklyFirst(rem, p) ==
  IF test(rem, everyWeekRe)
  THEN [r |-> replace(rem, everyWeekRe),
        p |-> [p EXCEPT !.repeat_after = Some(604800), !.repeat_mode = Some(0)]]
  ELSE IF test(rem, everyDayRe)
  THEN [r |-> replace(rem, everyDayRe),
        p |-> [p EXCEPT !.repeat_after = Some(86400), !.repeat_mode = Some(0)]]
  ELSE IF test(rem, everyMonthRe)
  THEN [r |-> replace(rem, everyMonthRe),
        p |-> [p EXCEPT !.repeat_mode = Some(1)]]
  ELSE IF test(rem, everyHourRe)
  THEN [r |-> replace(rem, everyHourRe),
        p |-> [p EXCEPT !.repeat_after = Some(3600), !.repeat_mode = Some(0)]]
  ELSE LET nHoursMatch == match(rem, everyNHoursRe) IN
       IF nHoursMatch.ok
       THEN [r |-> replace(rem, everyNHoursRe),
             p |-> [p EXCEPT !.repeat_after = Some(3600 * parseInt(Group(rem, nHoursMatch, 1))),
                             !.repeat_mode = Some(0)]]
       ELSE [r |-> rem, p |-> p]

\* 6. Recurrence: the keyword chain
recurStage(rem, p) ==
  IF test(rem, everyDayRe)
  THEN [r |-> replace(rem, everyDayRe),
        p |-> [p EXCEPT !.repeat_after = Some(86400), !.repeat_mode = Some(0)]]
  ELSE IF test(rem, everyWeekRe)
  THEN [r |-> replace(rem, everyWeekRe),
        p |-> [p EXCEPT !.repeat_after = Some(604800), !.repeat_mode = Some(0)]]
  ELSE IF test(rem, everyMonthRe)
  THEN [r |-> replace(rem, everyMonthRe),
        p |-> [p EXCEPT !.repeat_mode = Some(1)]]
  ELSE IF test(rem, everyHourRe)
  THEN [r |-> replace(rem, everyHourRe),
        p |-> [p EXCEPT !.repeat_after = Some(3600), !.repeat_mode = Some(0)]]
  ELSE LET nHoursMatch == match(rem, everyNHoursRe) IN
       IF nHoursMatch.ok
       THEN [r |-> replace(rem, everyNHoursRe),
             p |-> [p EXCEPT !.repeat_after = Some(3600 * parseInt(Group(rem, nHoursMatch, 1))),
                             !.repeat_mode = Some(0)]]
       ELSE [r |-> rem, p |-> p]

Recurrence ==
  /\ pc = "recur"
  /\ LET o == recurStage(remaining, patch) IN
     /\ remaining' = o.r
     /\ patch' = o.p
  /\ pc' = "secondDay"
  /\ UNCHANGED <<outside, lastIndex, text, now, parsedHour, parsedMinute, markerHour, markerMinute, result>>

\* mutant: the guard on due_date is dropped
dueUnsetDropped(p) == TRUE

\* patch.due_date === undefined (!patch.due_date in two of the stages: the
\* same, an ISO string is never empty)
dueUnset(p) == p.due_date = Undefined

\* mutant: the recurrence-day stages overwrite a recurrence already set
noRecurrenceYetDropped(p) == TRUE

\* patch.repeat_after === undefined && patch.repeat_mode === undefined
noRecurrenceYet(p) == p.repeat_after = Undefined /\ p.repeat_mode = Undefined

withWeekly(p) ==
  IF noRecurrenceYet(p)
  THEN [p EXCEPT !.repeat_after = Some(604800), !.repeat_mode = Some(0)]
  ELSE p

\* the "second day of every week" idiom
SecondDayOfWeek ==
  /\ pc = "secondDay"
  /\ IF test(remaining, secondDayOfWeekRe) /\ dueUnset(patch)
     THEN LET base == nextWeekday(startOfDay(now), 2, TRUE) IN
          /\ patch' = [withWeekly(patch) EXCEPT !.due_date = Some(toIso(applyTime(base)))]
          /\ remaining' = replace(remaining, secondDayOfWeekRe)
     ELSE UNCHANGED <<patch, remaining>>
  /\ pc' = "everyWeekday"
  /\ UNCHANGED <<outside, lastIndex, text, now, parsedHour, parsedMinute, markerHour, markerMinute, result>>

\* every <weekday>
EveryWeekday ==
  /\ pc = "everyWeekday"
  /\ LET weekdayRecurMatch ==
           IF dueUnset(patch) THEN match(remaining, everyWeekdayRe)
           ELSE [ok |-> FALSE, s |-> 0, e |-> 0, c |-> <<>>]
     IN IF weekdayRecurMatch.ok
        THEN LET dayKey == toLowerCase(Group(remaining, weekdayRecurMatch, 1))[1].w
                 targetDay == WEEKDAY_MAP[dayKey]
                 base == nextWeekday(startOfDay(now), targetDay, TRUE)
             IN /\ patch' = [withWeekly(patch) EXCEPT !.due_date = Some(toIso(applyTime(base)))]
                /\ remaining' = replace(remaining, everyWeekdayRe)
        ELSE UNCHANGED <<patch, remaining>>
  /\ pc' = "everyDayOfMonth"
  /\ UNCHANGED <<outside, lastIndex, text, now, parsedHour, parsedMinute, markerHour, markerMinute, result>>

\* every <day of month>
EveryDayOfMonth ==
  /\ pc = "everyDayOfMonth"
  /\ LET dayOfMonthMatch ==
           IF dueUnset(patch) THEN match(remaining, everyDayOfMonthRe)
           ELSE [ok |-> FALSE, s |-> 0, e |-> 0, c |-> <<>>]
     IN IF dayOfMonthMatch.ok
        THEN LET day == parseInt(Group(remaining, dayOfMonthMatch, 1))
                 base == nearestDayOfMonth(startOfDay(now), day)
                 p1 == IF noRecurrenceYet(patch)
                       THEN [patch EXCEPT !.repeat_mode = Some(1)] ELSE patch
             IN /\ patch' = [p1 EXCEPT !.due_date = Some(toIso(applyTime(base)))]
                /\ remaining' = replace(remaining, everyDayOfMonthRe)
        ELSE UNCHANGED <<patch, remaining>>
  /\ pc' = "date"
  /\ UNCHANGED <<outside, lastIndex, text, now, parsedHour, parsedMinute, markerHour, markerMinute, result>>

\* 7. Date expressions
dateStage(rem, p, n0, eh, em) ==
  IF test(rem, todayRe)
  THEN [r |-> replace(rem, todayRe),
        p |-> [p EXCEPT !.due_date = Some(toIso(applyTimeWith(startOfDay(n0), eh, em)))]]
  ELSE IF test(rem, tomorrowRe)
  THEN [r |-> replace(rem, tomorrowRe),
        p |-> [p EXCEPT !.due_date = Some(toIso(applyTimeWith(startOfDay(addDays(n0, 1)), eh, em)))]]
  ELSE IF test(rem, dayAfterTomorrowRe)
  THEN [r |-> replace(rem, dayAfterTomorrowRe),
        p |-> [p EXCEPT !.due_date = Some(toIso(applyTimeWith(startOfDay(addDays(n0, 2)), eh, em)))]]
  ELSE LET nDaysMatch == match(rem, inNDaysRe) IN
       IF nDaysMatch.ok
       THEN LET n == parseInt(Group(rem, nDaysMatch, 1)) IN
            [r |-> replace(rem, inNDaysRe),
             p |-> [p EXCEPT !.due_date = Some(toIso(applyTimeWith(startOfDay(addDays(n0, n)), eh, em)))]]
       ELSE LET weekdayMatch == match(rem, weekdayOnceRe) IN
            IF weekdayMatch.ok
            THEN LET dayKey == toLowerCase(Group(rem, weekdayMatch, 1))[1].w
                     targetDay == WEEKDAY_MAP[dayKey]
                 IN [r |-> replace(rem, weekdayOnceRe),
                     p |-> [p EXCEPT !.due_date =
                              Some(toIso(applyTimeWith(nextWeekday(startOfDay(n0), targetDay, FALSE), eh, em)))]]
            ELSE [r |-> rem, p |-> p]

DateExpr ==
  /\ pc = "date"
  /\ IF dueUnset(patch)
     THEN LET o == dateStage(remaining, patch, now, effectiveHour, effectiveMinute) IN
          /\ remaining' = o.r
          /\ patch' = o.p
     ELSE UNCHANGED <<patch, remaining>>
  /\ pc' = "timeOnly"
  /\ UNCHANGED <<outside, lastIndex, text, now, parsedHour, parsedMinute, markerHour, markerMinute, result>>

\* mutant: a candidate equal to now rolls to tomorrow as well
timeOnlyDueRollsOnEqual(n0, h, m) ==
  LET candidate == atTime(startOfDay(n0), h, m) IN
  IF ~isBefore(n0, candidate) THEN toIso(atTime(startOfDay(addDays(n0, 1)), h, m))
  ELSE toIso(candidate)

\* 8. Time-only (no date matched)
timeOnlyDue(n0, h, m) ==
  LET candidate == atTime(startOfDay(n0), h, m) IN
  IF isBefore(candidate, n0) THEN toIso(atTime(startOfDay(addDays(n0, 1)), h, m))
  ELSE toIso(candidate)

TimeOnly ==
  /\ pc = "timeOnly"
  /\ IF dueUnset(patch) /\ effectiveHour # Undefined /\ effectiveMinute # Undefined
     THEN patch' = [patch EXCEPT !.due_date =
                      Some(timeOnlyDue(now, Val(effectiveHour), Val(effectiveMinute)))]
     ELSE UNCHANGED patch
  /\ pc' = "hourly"
  /\ UNCHANGED <<outside, lastIndex, text, now, remaining, parsedHour, parsedMinute, markerHour,
                 markerMinute, result>>

\* 9. Hourly repeat: set due_date if still missing
HourlyRepeat ==
  /\ pc = "hourly"
  /\ IF patch.repeat_after # Undefined /\ Val(patch.repeat_after) < 86400 /\ dueUnset(patch)
     THEN /\ patch' = [patch EXCEPT !.due_date = Some(toIso(ceilToHour(now)))]
          /\ now' = ceilToHourArgument(now)
     ELSE UNCHANGED <<patch, now>>
  /\ pc' = "monthly"
  /\ UNCHANGED <<outside, lastIndex, text, remaining, parsedHour, parsedMinute, markerHour,
                 markerMinute, result>>

\* mutant: the candidate of today is kept even when it is before now
monthlyDueNeverRolls(n0, eh, em) ==
  toIso(applyTimeWith(startOfDay(n0), eh, em))

\* 10. Monthly repeat fallback: use today if no date
monthlyDue(n0, eh, em) ==
  LET candidate == applyTimeWith(startOfDay(n0), eh, em) IN
  IF isBefore(candidate, n0) THEN toIso(applyTimeWith(startOfDay(addDays(n0, 1)), eh, em))
  ELSE toIso(candidate)

MonthlyFallback ==
  /\ pc = "monthly"
  /\ IF patch.repeat_mode = Some(1) /\ dueUnset(patch)
     THEN patch' = [patch EXCEPT !.due_date = Some(monthlyDue(now, effectiveHour, effectiveMinute))]
     ELSE UNCHANGED patch
  /\ pc' = "title"
  /\ UNCHANGED <<outside, lastIndex, text, now, remaining, parsedHour, parsedMinute, markerHour,
                 markerMinute, result>>

\* remaining.replace(/\s{2,}/g, ' ')
RECURSIVE collapseSpaces(_)
collapseSpaces(s) ==
  IF s = <<>> THEN <<>>
  ELSE LET n == RunLen(s, Ws, 1) IN
       IF n >= 2 THEN <<SP>> \o collapseSpaces(SubSeq(s, n + 1, Len(s)))
       ELSE <<Head(s)>> \o collapseSpaces(Tail(s))

\* mutant: the first character is not upper-cased
capitalizeNot(cleaned) == cleaned

\* cleaned.charAt(0).toUpperCase() + cleaned.slice(1)
capitalize(cleaned) == <<UpperFirst(Head(cleaned))>> \o Tail(cleaned)

cleanedOf(rem) == trim(collapseSpaces(rem))

titleChanged(cleaned, txt) ==
  Len(cleaned) > 0 /\ toLowerCase(cleaned) # trim(toLowerCase(txt))

\* mutant: priority is forgotten in the gate
hasMeaningfulPatchNoPriority(p) ==
  \/ p.due_date # Undefined
  \/ p.project_name # Undefined
  \/ (p.labels # Undefined /\ Len(Val(p.labels)) > 0)
  \/ p.repeat_after # Undefined
  \/ p.repeat_mode # Undefined

hasMeaningfulPatch(p) ==
  \/ p.due_date # Undefined
  \/ p.priority # Undefined
  \/ p.project_name # Undefined
  \/ (p.labels # Undefined /\ Len(Val(p.labels)) > 0)
  \/ p.repeat_after # Undefined
  \/ p.repeat_mode # Undefined

\* 11. Build cleaned_title, and return
BuildTitle ==
  /\ pc = "title"
  /\ LET cleaned == cleanedOf(remaining)
         p1 == IF titleChanged(cleaned, text)
               THEN [patch EXCEPT !.cleaned_title = Some(capitalize(cleaned))]
               ELSE patch
     IN /\ patch' = p1
        /\ result' = IF ~hasMeaningfulPatch(p1) /\ p1.cleaned_title = Undefined
                     THEN "null" ELSE "patch"
  /\ pc' = "done"
  /\ UNCHANGED <<outside, lastIndex, text, now, remaining, parsedHour, parsedMinute, markerHour, markerMinute>>

Next ==
  \/ Entry
  \/ Priority
  \/ Project
  \/ Labels
  \/ ExplicitTime
  \/ TimeMarker
  \/ Recurrence
  \/ SecondDayOfWeek
  \/ EveryWeekday
  \/ EveryDayOfMonth
  \/ DateExpr
  \/ TimeOnly
  \/ HourlyRepeat
  \/ MonthlyFallback
  \/ BuildTitle

\* ------------------------------------------------------------------------
\* VikunjaClient.request
\* ------------------------------------------------------------------------

\* config.http.retries
Retries == 1

NoRequest == [method |-> "", path |-> "", body |-> ""]

\* no call of request in progress
IdleRequest ==
  [state |-> "idle", request |-> NoRequest, attempt |-> 0, sent |-> <<>>, outcomes |-> <<>>]

\* the requests the client's methods make
Requests == {
  [method |-> "GET", path |-> "/labels", body |-> ""],
  [method |-> "PUT", path |-> "/labels", body |-> "title"],
  [method |-> "POST", path |-> "/tasks/1/labels", body |-> "label_id"],
  [method |-> "PATCH", path |-> "/tasks/1", body |-> "merged"]}

\* what fetch can end with: a response (status and body text), the abort
\* of the timeout, or a network failure
Statuses == {200, 400, 404, 405, 500, 503}
ResponseTexts == {<<>>, <<"not found">>, <<"no task ", "5">>, <<"gateway ", "timeout">>}

Outcome(kind, status, txt) == [kind |-> kind, status |-> status, text |-> txt]

Outcomes ==
  {Outcome("response", s, t) : s \in Statuses, t \in ResponseTexts}
    \cup {Outcome("abort", 0, <<>>), Outcome("network", 0, <<>>)}

\* response.ok
ok(o) == o.kind = "response" /\ o.status \in 200..299

DigitChar(n) == CHOOSE c \in Digit : DigitVal[c] = n

\* `${response.status}`
statusText(s) == <<DigitChar(s \div 100), DigitChar((s \div 10) % 10), DigitChar(s % 10)>>

\* the error the attempt throws: its name and its message, the message as
\* the pieces it is put together from
errorOf(o) ==
  CASE o.kind = "response" ->
         [name |-> "Error",
          message |-> <<"Vikunja API error ">> \o statusText(o.status) \o <<": ">> \o o.text]
    [] o.kind = "abort" ->
         [name |-> "AbortError", message |-> <<"This operation was aborted">>]
    [] OTHER ->
         [name |-> "TypeError", message |-> <<"fetch failed">>]

\* String.prototype.includes, on the pieces of the message
includes(message, x) == \E i \in 1..Len(message) : message[i] = x

isServerError(lastError) ==
  \/ includes(lastError.message, "5")
  \/ includes(lastError.message, "timeout")
  \/ lastError.name = "AbortError"

parserVars == <<text, now, remaining, patch, parsedHour, parsedMinute, markerHour,
                markerMinute, pc, result, lastIndex>>

\* request(path, options) is called
SendRequest ==
  /\ http.state = "idle"
  /\ \E r \in Requests :
       http' = [IdleRequest EXCEPT !.state = "fetching", !.request = r]
  /\ UNCHANGED <<parserVars, history, store, procs, hook, task>>

\* one turn of the for loop: fetch, then return, retry or throw
Attempt ==
  /\ http.state = "fetching"
  /\ http.attempt <= Retries
  /\ \E o \in Outcomes :
       LET sent == Append(http.sent, http.request)
           outcomes == Append(http.outcomes, o)
       IN IF ok(o)
          THEN http' = [http EXCEPT !.state = "returned", !.sent = sent, !.outcomes = outcomes]
          ELSE IF http.attempt < Retries /\ isServerError(errorOf(o))
          THEN http' = [http EXCEPT !.attempt = @ + 1, !.sent = sent, !.outcomes = outcomes]
          ELSE http' = [http EXCEPT !.state = "thrown", !.sent = sent, !.outcomes = outcomes]
  /\ UNCHANGED <<parserVars, history, store, procs, hook, task>>

\* the caller has the result or the error
Settle ==
  /\ http.state \in {"returned", "thrown"}
  /\ http' = IdleRequest
  /\ UNCHANGED <<parserVars, history, store, procs, hook, task>>

NextClient ==
  \/ SendRequest
  \/ Attempt
  \/ Settle

\* ------------------------------------------------------------------------
\* VikunjaClient.resolveLabels, called by the webhook deliveries
\* ------------------------------------------------------------------------

\* the number of webhook deliveries that resolve labels
NumDeliveries == 2

Deliveries == 1..NumDeliveries

\* a label of the Vikunja instance; by = 0: it was there before, by = d: the
\* delivery d created it
Label(id, title, by) == [id |-> id, title |-> title, by |-> by]

\* name.toLowerCase().trim()
labelKey(name) == trim(toLowerCase(name))

\* new Map(existing.map((l) => [l.title.toLowerCase().trim(), l.id])): a
\* later label of the same key replaces an earlier one
labelMapOf(existing) ==
  [k \in {labelKey(l.title) : l \in existing} |->
     LET same == {l.id : l \in {x \in existing : labelKey(x.title) = k}}
     IN CHOOSE id \in same : \A other \in same : other <= id]

\* labelMap.set(key, id)
mapSet(labelMap, key, id) ==
  [k \in DOMAIN labelMap \cup {key} |-> IF k = key THEN id ELSE labelMap[k]]

IdleDelivery ==
  [pc |-> "idle", names |-> <<>>, existing |-> {}, labelMap |-> <<>>, ids |-> <<>>]

\* parsed.labels of the deliveries: dev / Dev dev / dev ops / OPS
LabelLists == {
  << <<A("dev")>> >>,
  << <<Cap("dev")>>, <<A("dev")>> >>,
  << <<A("dev")>>, <<A("ops")>> >>,
  << <<Up("ops")>> >>}

\* handleWebhook: parsed.labels is not empty, resolveLabels(parsed.labels)
ResolveLabelsCall(d) ==
  /\ procs[d].pc = "idle"
  /\ \E names \in LabelLists :
       procs' = [procs EXCEPT ![d] = [IdleDelivery EXCEPT !.pc = "getLabels", !.names = names]]
  /\ UNCHANGED <<parserVars, history, http, store, hook, task>>

\* const existing = await this.getLabels(), or the request throws
GetLabels(d) ==
  /\ procs[d].pc = "getLabels"
  /\ \/ procs' = [procs EXCEPT ![d].pc = "loop", ![d].existing = store,
                               ![d].labelMap = labelMapOf(store)]
     \/ procs' = [procs EXCEPT ![d].pc = "failed"]
  /\ UNCHANGED <<parserVars, history, http, store, hook, task>>

\* one turn of for (const name of names): the id from the map, or the id
\* of the label createLabel(name) has created (or the request throws);
\* after the last name, return ids
ResolveName(d) ==
  /\ procs[d].pc = "loop"
  /\ LET p == procs[d]
         i == Len(p.ids) + 1
     IN IF i > Len(p.names)
        THEN /\ procs' = [procs EXCEPT ![d].pc = "done"]
             /\ UNCHANGED store
        ELSE LET name == p.names[i]
                 key == labelKey(name)
             IN IF key \in DOMAIN p.labelMap
                THEN /\ procs' = [procs EXCEPT ![d].ids = Append(@, p.labelMap[key])]
                     /\ UNCHANGED store
                ELSE \/ LET created == Label(Cardinality(store) + 1, name, d) IN
                        /\ store' = store \cup {created}
                        /\ procs' = [procs EXCEPT ![d].ids = Append(@, created.id),
                                       ![d].labelMap = mapSet(@, key, created.id)]
                     \/ /\ procs' = [procs EXCEPT ![d].pc = "failed"]
                        /\ UNCHANGED store
  /\ UNCHANGED <<parserVars, history, http, hook, task>>

NextLabels ==
  \/ \E d \in Deliveries : ResolveLabelsCall(d)
  \/ \E d \in Deliveries : GetLabels(d)
  \/ \E d \in Deliveries : ResolveName(d)

\* ------------------------------------------------------------------------
\* handleWebhook: the data of a delivery
\* ------------------------------------------------------------------------

\* task.due_date of a Vikunja task: absent, null, '', the default
\* '0001-01-01T00:00:00Z', or the ISO text of a date
DueDate(kind, iso) == [kind |-> kind, iso |-> iso]

DueKinds == {"absent", "null", "empty", "sentinel", "date"}

\* a Task, with the labels attached to it and the number of PATCH requests
\* the instance has accepted for it
Task(title, due) ==
  [title |-> title, due_date |-> due, priority |-> 0, project_id |-> 1,
   repeat_after |-> 0, repeat_mode |-> 0, labels |-> {}, patches |-> 0]

NoTask == Task(<<>>, DueDate("absent", <<>>))

\* const patch: TaskPatch = {}
EmptyTaskPatch == [title |-> Undefined, due_date |-> Undefined,
  priority |-> Undefined, project_id |-> Undefined, repeat_after |-> Undefined,
  repeat_mode |-> Undefined]

\* request.body once WebhookPayloadSchema has parsed it
Payload(valid, event_name, t) == [valid |-> valid, event_name |-> event_name, task |-> t]

\* no delivery is being handled; outcome tells how the last one returned
IdleHook ==
  [pc |-> "idle", n |-> 0, outcome |-> "none",
   payload |-> Payload(FALSE, "", NoTask), returned |-> "none",
   parsed |-> EmptyPatch, patch |-> EmptyTaskPatch, labelIds |-> <<>>,
   calls |-> <<>>]

\* ------------------------------------------------------------------------
\* Inputs
\* ------------------------------------------------------------------------

\* the most phrases joined into one text
MaxSeg == 2
\* the number of consecutive days `now` ranges over in SpecCal
NumDays == 7
\* the number of consecutive days `now` ranges over in SpecDom
NumDomDays == 62

W(ws) == [i \in 1..Len(ws) |-> A(ws[i])]

Q == "\""

\* plain words and white space
FillerPhrases == {
  W(<<"buy">>),
  <<Up("milk")>>,
  W(<<"moloko">>),
  <<A("buy"), SP, SP, Up("milk")>>}

\* !3  !Urgent  +Work  +"Big proj"  *dev  *"My label"
TagPhrases == {
  W(<<"!", "3">>),
  <<A("!"), Cap("urgent")>>,
  <<A("+"), Cap("work")>>,
  <<A("+"), A(Q), Cap("big"), SP, A("proj"), A(Q)>>,
  W(<<"*", "dev">>),
  <<A("*"), A(Q), Cap("my"), SP, A("label"), A(Q)>>}

\* 18:30  v 25:00  xv 9  xutromx
TimePhrases == {
  W(<<"1", "8", ":", "3", "0">>),
  W(<<"v", " ", "2", "5", ":", "0", "0">>),
  W(<<"x", "v", " ", "9">>),
  W(<<"x", "utrom", "x">>)}

\* the recurrence keywords; a Cyrillic keyword is only recognised between
\* ASCII word characters (x)
RecurPhrases == {
  W(<<"x", "kazhdyy", " ", "den", "x">>),
  W(<<"x", "kazhduyu", " ", "nedelyu", "x">>),
  W(<<"x", "kazhdyy", " ", "mesyac", "x">>),
  W(<<"x", "kazhdyy", " ", "chas", "x">>),
  W(<<"x", "kazhdye", " ", "2", " ", "chaso", "v", "x">>)}

RecurDayPhrases == {
  W(<<"x", "vtoroy", " ", "den", " ", "kazhdoy", " ", "nedeli", "x">>),
  W(<<"x", "kazhdyy", " ", "monday">>),
  W(<<"x", "kazhdoe", " ", "3", "1", " ", "chislo", "x">>)}

DatePhrases == {
  W(<<"today">>),
  <<Cap("tomorrow")>>,
  W(<<"zavtra">>),
  W(<<"x", "poslezavtra", "x">>),
  W(<<"x", "cherez", " ", "3", " ", "dnya", "x">>),
  W(<<"v", " ", "friday">>)}

Phrases ==
  FillerPhrases \cup TagPhrases \cup TimePhrases \cup RecurPhrases
    \cup RecurDayPhrases \cup DatePhrases

\* the texts of at most n phrases, joined by one space; a text may also
\* start or end with a space
RECURSIVE Joined(_)
Joined(n) ==
  IF n = 0 THEN {<<>>}
  ELSE LET shorter == Joined(n - 1) IN
       shorter \cup {t \o <<SP>> \o ph : t \in shorter, ph \in Phrases \cup {<<>>}}

Texts == Joined(MaxSeg) \cup Phrases

\* 2024-01-10 12:00:00.000, the Wednesday the tests use
NOW == Instant(9, 12 * MsPerHour)

Nows == {NOW}

InitWith(texts, nows) ==
  /\ text \in texts
  /\ now \in nows
  /\ remaining = text
  /\ patch = EmptyPatch
  /\ parsedHour = Undefined
  /\ parsedMinute = Undefined
  /\ markerHour = Undefined
  /\ markerMinute = Undefined
  /\ pc = "entry"
  /\ result = "pending"
  /\ lastIndex = <<0, 0>>
  /\ history = <<>>
  /\ http = IdleRequest
  /\ store = {}
  /\ procs = <<>>
  /\ hook = IdleHook
  /\ task = NoTask

Init == InitWith(Texts, Nows)

Spec == Init /\ [][Next]_vars

\* SpecCal: one day phrase and one time or recurrence modifier, under
\* every weekday and several times of day of `now`
Weekdays == {"sunday", "monday", "tuesday", "wednesday", "thursday", "friday", "saturday"}

CalDayPhrases ==
  {<<>>}
    \cup {W(<<wd>>) : wd \in Weekdays}
    \cup {W(<<"x", "kazhdyy", " ", wd>>) : wd \in Weekdays}
    \cup {W(<<"today">>), W(<<"tomorrow">>), W(<<"x", "poslezavtra", "x">>),
          W(<<"x", "cherez", " ", "3", " ", "dnya", "x">>),
          W(<<"x", "vtoroy", " ", "den", " ", "kazhdoy", " ", "nedeli", "x">>),
          W(<<"x", "kazhdoe", " ", "3", "1", " ", "chislo", "x">>)}

CalModifiers == {
  <<>>,
  W(<<" ", "1", "8", ":", "3", "0">>),
  W(<<" ", "1", "3", ":", "0", "0">>),
  W(<<" ", "2", "5", ":", "7", "0">>),
  W(<<" ", "x", "utrom", "x">>),
  W(<<" ", "1", "8", ":", "3", "0", " ", "x", "vecherom", "x">>),
  W(<<" ", "x", "vecherom", "x", " ", "1", "8", ":", "3", "0">>),
  W(<<" ", "x", "kazhdyy", " ", "mesyac", "x">>),
  W(<<" ", "x", "kazhdyy", " ", "chas", "x">>)}

CalTexts == {d \o m : d \in CalDayPhrases, m \in CalModifiers}

\* midnight, 13:00:00.000, one millisecond later, 18:30:00.000, and the
\* last half second of the day
CalTimes == {0, 13 * MsPerHour, 13 * MsPerHour + 1, 18 * MsPerHour + 30 * MsPerMinute,
  MsPerDay - 500}

\* from Friday 2024-01-26, across the end of January
CalFirstDay == 25

CalNows == {Instant(CalFirstDay + i, t) : i \in 0..(NumDays - 1), t \in CalTimes}

InitCal == InitWith(CalTexts, CalNows)

SpecCal == InitCal /\ [][Next]_vars

\* SpecDom: "every <D> chislo" for every one- and two-digit D, under every
\* day of January and February 2024
Digits1 == {<<A(x)>> : x \in Digit}
Digits2 == {<<A(x), A(y)>> : x \in Digit, y \in Digit}

DomTexts ==
  {W(<<"x", "kazhdoe", " ">>) \o ds \o W(<<" ", "chislo", "x">>) : ds \in Digits1 \cup Digits2}

DomNows == {Instant(i, 12 * MsPerHour) : i \in 0..(NumDomDays - 1)}

InitDom == InitWith(DomTexts, DomNows)

SpecDom == InitDom /\ [][Next]_vars

\* ------------------------------------------------------------------------
\* Properties
\* ------------------------------------------------------------------------

\* the instant an ISO string denotes
IsoInstant(iso) ==
  Instant(MonthStart(iso[1], iso[2] - 1) + iso[3] - 1,
          iso[4] * MsPerHour + iso[5] * MsPerMinute + iso[6] * MsPerSecond + iso[7])

\* day d at h:m:00.000
AtClock(d, h, m) == Norm(d, h * MsPerHour + m * MsPerMinute)

WeekdayOf(d) == (d + 1) % 7

\* the first day at or after d0 that falls on weekday k
FirstWeekdayFrom(d0, k) == CHOOSE d \in d0..(d0 + 6) : WeekdayOf(d) = k

\* the time of day that governs: explicit, else marker, else 23:59
GoverningTime ==
  IF parsedHour # Undefined THEN <<Val(parsedHour), Val(parsedMinute)>>
  ELSE IF markerHour # Undefined THEN <<Val(markerHour), Val(markerMinute)>>
  ELSE <<23, 59>>

DueStages == <<"secondDay", "everyWeekday", "everyDayOfMonth", "date", "timeOnly",
  "hourly", "monthly", "title">>

\* C1: due_date is assigned at most once per parse: the due-date stages run
\* in the fixed order second-day idiom, every-weekday, every-day-of-month,
\* absolute date, time-only, hourly fallback, monthly fallback, and once
\* due_date is set every later one of them is skipped (it changes neither
\* the patch nor the remaining text).
DueDateSetOnce ==
  [][/\ \A i \in 1..(Len(DueStages) - 1) : pc = DueStages[i] => pc' = DueStages[i + 1]
     /\ patch.due_date # Undefined => patch'.due_date = patch.due_date
     /\ (patch.due_date # Undefined /\ pc # "title") =>
          (patch' = patch /\ remaining' = remaining)]_vars

\* a later stage finds its marker in the text although due_date is set
DueDateSetOnceWitness ==
  /\ pc = "date"
  /\ patch.due_date # Undefined
  /\ test(remaining, todayRe)

AllFieldsAbsent ==
  /\ patch.due_date = Undefined
  /\ patch.priority = Undefined
  /\ patch.project_name = Undefined
  /\ patch.labels = Undefined
  /\ patch.repeat_after = Undefined
  /\ patch.repeat_mode = Undefined
  /\ patch.cleaned_title = Undefined

\* C2: the call returns null if and only if no field of the patch, the
\* cleaned title included, was populated; empty and blank texts give null.
NullIffNothingPopulated ==
  pc = "done" =>
    /\ result \in {"null", "patch"}
    /\ (result = "null") <=> AllFieldsAbsent
    /\ (\A i \in 1..Len(text) : IsSpaceAtom(text[i])) => result = "null"

\* a patch that carries the priority alone
NullIffNothingPopulatedWitness ==
  /\ pc = "done"
  /\ result = "patch"
  /\ patch.priority # Undefined
  /\ patch.cleaned_title = Undefined
  /\ patch.due_date = Undefined

\* C3: a due date resolved from a date marker or a recurrence-day marker
\* carries the explicit numeric time if one was extracted, otherwise the
\* time of the time-of-day marker if one was extracted, otherwise 23:59,
\* with seconds and milliseconds zero (an hour or minute beyond 23 or 59
\* carries over into the following hours and days).
EffectiveTimeGoverns ==
  (pc = "timeOnly" /\ patch.due_date # Undefined) =>
    LET due == Val(patch.due_date)
        hm == GoverningTime
    IN /\ due[4] * 60 + due[5] = (hm[1] * 60 + hm[2]) % (24 * 60)
       /\ due[6] = 0
       /\ due[7] = 0

\* a date, with a marker that stands before an explicit time in the text
EffectiveTimeGovernsWitness ==
  /\ pc = "timeOnly"
  /\ patch.due_date # Undefined
  /\ parsedHour = Some(18)
  /\ markerHour = Some(20)
  /\ test(text, timeMarkerRe)
  /\ match(text, timeMarkerRe).s < match(text, explicitTimeRe).s

\* the absolute-date stage takes its bare-weekday branch
BareWeekdayCase(rem) ==
  /\ ~test(rem, todayRe)
  /\ ~test(rem, tomorrowRe)
  /\ ~test(rem, dayAfterTomorrowRe)
  /\ ~test(rem, inNDaysRe)
  /\ test(rem, weekdayOnceRe)

MatchedWeekday(rem, re) == WEEKDAY_MAP[Group(rem, match(rem, re), 1)[1].w]

\* C4: a bare weekday name, matched by the absolute-date stage while
\* due_date is unset, resolves to the first day strictly after the day of
\* now that falls on that weekday, 1 to 7 days ahead and 7 when now is on
\* that weekday, with the governing time applied.
BareWeekdayStrictlyAfterToday ==
  [][(pc = "date" /\ patch.due_date = Undefined /\ BareWeekdayCase(remaining)) =>
       LET k == MatchedWeekday(remaining, weekdayOnceRe)
           day == FirstWeekdayFrom(now.d + 1, k)
       IN /\ patch'.due_date # Undefined
          /\ IsoInstant(Val(patch'.due_date)) = AtClock(day, GoverningTime[1], GoverningTime[2])
          /\ day - now.d \in 1..7
          /\ WeekdayOf(now.d) = k => day - now.d = 7]_vars

\* "wednesday" said on a Wednesday
BareWeekdayStrictlyAfterTodayWitness ==
  /\ pc = "timeOnly"
  /\ text = <<A("wednesday")>>
  /\ getDay(now) = 3
  /\ patch.due_date # Undefined

\* C5: "every <weekday>", matched while due_date is unset, sets due_date to
\* the first day at or after the day of now that falls on that weekday (0
\* to 6 days ahead) with the governing time applied, and sets weekly
\* recurrence (604800, mode 0) unless repeat_after or repeat_mode is set
\* already, which are then kept.
EveryWeekdayFromToday ==
  [][(pc = "everyWeekday" /\ patch.due_date = Undefined /\ test(remaining, everyWeekdayRe)) =>
       LET k == MatchedWeekday(remaining, everyWeekdayRe)
           day == FirstWeekdayFrom(now.d, k)
       IN /\ patch'.due_date # Undefined
          /\ IsoInstant(Val(patch'.due_date)) = AtClock(day, GoverningTime[1], GoverningTime[2])
          /\ day - now.d \in 0..6
          /\ WeekdayOf(now.d) = k => day = now.d
          /\ IF patch.repeat_after = Undefined /\ patch.repeat_mode = Undefined
             THEN patch'.repeat_after = Some(604800) /\ patch'.repeat_mode = Some(0)
             ELSE patch'.repeat_after = patch.repeat_after /\ patch'.repeat_mode = patch.repeat_mode]_vars

\* "every monday" said on a Monday, after a monthly keyword
EveryWeekdayFromTodayWitness ==
  /\ pc = "everyDayOfMonth"
  /\ test(text, everyWeekdayRe)
  /\ MatchedWeekday(text, everyWeekdayRe) = getDay(now)
  /\ patch.due_date # Undefined
  /\ IsoInstant(Val(patch.due_date)).d = now.d
  /\ patch.repeat_mode = Some(1)

Before(a, b) == a.d < b.d \/ (a.d = b.d /\ a.t < b.t)

\* C6: when no date or recurrence-day marker set due_date and a governing
\* time was resolved, due_date is today at that time unless that instant is
\* strictly before now, and then tomorrow at that time.
TimeOnlyTodayOrTomorrow ==
  [][(/\ pc = "timeOnly"
      /\ patch.due_date = Undefined
      /\ (parsedHour # Undefined \/ markerHour # Undefined)) =>
       LET today == AtClock(now.d, GoverningTime[1], GoverningTime[2])
           tomorrow == AtClock(now.d + 1, GoverningTime[1], GoverningTime[2])
       IN /\ patch'.due_date # Undefined
          /\ IsoInstant(Val(patch'.due_date)) = IF Before(today, now) THEN tomorrow ELSE today]_vars

\* 13:00 asked at 13:00:00.000 stays today
TimeOnlyTodayOrTomorrowWitness ==
  /\ pc = "hourly"
  /\ text = W(<<" ", "1", "3", ":", "0", "0">>)
  /\ now.t = 13 * MsPerHour
  /\ patch.due_date # Undefined
  /\ IsoInstant(Val(patch.due_date)) = now

\* D clamped into the valid days 1..len of a month
ClampDay(D, len) == Max(1, Min(D, len))

\* the day number D of a text "x kazhdoe <D> chislo x"
DomDay == parseInt(SubSeq(text, 4, Len(text) - 3))

\* C7: for every day number D of one or two digits (0 to 99) and every
\* reference date R, the day-of-month resolver returns day D clamped to
\* the length of R's month, in R's month, if that date is not before R,
\* and otherwise day D clamped to the length of the following month, in the
\* following month; the day of the returned date is D clamped into the
\* valid days of the returned month.
DayOfMonthClamped ==
  (pc = "date" /\ patch.due_date # Undefined) =>
    LET r == YMD(now.d)
        due == Val(patch.due_date)
        here == ClampDay(DomDay, DaysIn(r.y, r.m))
        ny == IF r.m = 11 THEN r.y + 1 ELSE r.y
        nm == (r.m + 1) % 12
    IN /\ due[3] = ClampDay(DomDay, DaysIn(due[1], due[2] - 1))
       /\ IF here >= r.day
          THEN <<due[1], due[2], due[3]>> = <<r.y, r.m + 1, here>>
          ELSE <<due[1], due[2], due[3]>> = <<ny, nm + 1, ClampDay(DomDay, DaysIn(ny, nm))>>

\* the same for the day numbers 1 to 99 alone
DayOfMonthClampedFromOne == DomDay >= 1 => DayOfMonthClamped

\* the keywords that are tried first at or after the recurrence stage
FirstRecurrenceKeyword(rem) ==
  IF test(rem, everyDayRe) THEN "daily"
  ELSE IF test(rem, everyWeekRe) THEN "weekly"
  ELSE IF test(rem, everyMonthRe) THEN "monthly"
  ELSE IF test(rem, everyHourRe) THEN "hourly"
  ELSE IF test(rem, everyNHoursRe) THEN "nhours"
  ELSE "none"

RecurrenceRes == [daily |-> everyDayRe, weekly |-> everyWeekRe, monthly |-> everyMonthRe,
  hourly |-> everyHourRe, nhours |-> everyNHoursRe]

\* C8: of the recurrence keywords daily, weekly, monthly, hourly and
\* every-N-hours in the text, only the first in that order takes effect,
\* wherever they stand: daily 86400/0, weekly 604800/0, monthly mode 1 and
\* no repeat_after, hourly 3600/0, every N hours 3600*N/0; the others stay
\* in the text.
FirstRecurrenceKeywordWins ==
  [][pc = "recur" =>
       LET first == FirstRecurrenceKeyword(remaining)
           n == parseInt(Group(remaining, match(remaining, everyNHoursRe), 1))
       IN /\ first = "daily" => patch'.repeat_after = Some(86400) /\ patch'.repeat_mode = Some(0)
          /\ first = "weekly" => patch'.repeat_after = Some(604800) /\ patch'.repeat_mode = Some(0)
          /\ first = "monthly" => patch'.repeat_after = Undefined /\ patch'.repeat_mode = Some(1)
          /\ first = "hourly" => patch'.repeat_after = Some(3600) /\ patch'.repeat_mode = Some(0)
          /\ first = "nhours" => patch'.repeat_after = Some(3600 * n) /\ patch'.repeat_mode = Some(0)
          /\ first = "none" => patch' = patch /\ remaining' = remaining
          /\ \A k \in DOMAIN RecurrenceRes :
               k # first => test(remaining', RecurrenceRes[k]) = test(remaining, RecurrenceRes[k])]_vars

\* the weekly keyword stands before the daily one, and daily is taken
FirstRecurrenceKeywordWinsWitness ==
  /\ pc = "secondDay"
  /\ test(text, everyDayRe)
  /\ test(text, everyWeekRe)
  /\ match(text, everyWeekRe).s < match(text, everyDayRe).s
  /\ patch.repeat_after = Some(86400)
  /\ test(remaining, everyWeekRe)

AllRes == {prioNumRe, prioWordRe, projectQuotedRe, projectSimpleRe, labelQuotedRe,
  labelSimpleRe, explicitTimeRe, hourOnlyTimeRe, timeMarkerRe, everyDayRe,
  everyWeekRe, everyMonthRe, everyHourRe, everyNHoursRe, everyWeekdayRe,
  everyDayOfMonthRe, secondDayOfWeekRe, todayRe, tomorrowRe, dayAfterTomorrowRe,
  inNDaysRe, weekdayOnceRe}

\* no pattern of the parser matches anywhere in the text
NoMarker(t) == \A re \in AllRes : ~test(t, re)

IsBlank(t) == \A i \in 1..Len(t) : IsSpaceAtom(t[i])

\* C9: a non-blank text without any quick-add marker gives no cleaned_title
\* and no match, whatever white space it holds.
NoMarkerNoMatch ==
  (pc = "done" /\ ~IsBlank(text) /\ NoMarker(text)) =>
    (patch.cleaned_title = Undefined /\ result = "null")

\* the text without the spaces that follow a space, and without a leading
\* or a trailing space
Squeezed(s) ==
  LET keep == {i \in 1..Len(s) :
                 \/ ~IsSpaceAtom(s[i])
                 \/ /\ i > 1
                    /\ ~IsSpaceAtom(s[i - 1])
                    /\ \E j \in (i + 1)..Len(s) : ~IsSpaceAtom(s[j])}
      idx(n) == CHOOSE i \in keep : Cardinality({j \in keep : j < i}) = n - 1
  IN [n \in 1..Cardinality(keep) |-> s[idx(n)]]

\* the text from its first to its last character that is not white space
Trimmed(s) ==
  LET ns == {i \in 1..Len(s) : ~IsSpaceAtom(s[i])} IN
  IF ns = {} THEN <<>>
  ELSE SubSeq(s, CHOOSE i \in ns : \A j \in ns : i <= j, CHOOSE i \in ns : \A j \in ns : i >= j)

SameIgnoringCase(a, b) ==
  Len(a) = Len(b) /\ \A i \in 1..Len(a) : a[i].w = b[i].w

\* C10: cleaned_title is present exactly when the remaining text, with its
\* white space runs collapsed and trimmed, is not empty and differs from the
\* trimmed input, letter case ignored; it is that text with its first
\* character upper-cased and the rest unchanged; it is absent when the
\* markers consume the whole text.
CleanedTitleRule ==
  pc = "done" =>
    LET rest == Squeezed(remaining)
        present == patch.cleaned_title # Undefined
    IN /\ present <=> (rest # <<>> /\ ~SameIgnoringCase(rest, Trimmed(text)))
       /\ present =>
            LET title == Val(patch.cleaned_title) IN
            /\ Len(title) = Len(rest)
            /\ \A i \in 2..Len(rest) : title[i] = rest[i]
            /\ title[1].w = rest[1].w
            /\ title[1].c = IF HasCase(rest[1]) /\ rest[1].c = 0 THEN 1 ELSE rest[1].c
       /\ (rest = <<>>) => ~present

\* a title whose first word was lower case and whose later word is upper
\* case in the text
CleanedTitleRuleWitness ==
  /\ pc = "done"
  /\ patch.cleaned_title # Undefined
  /\ patch.priority # Undefined
  /\ Val(patch.cleaned_title) = <<Cap("buy"), SP, Up("milk")>>

\* the markers consume the whole text
CleanedTitleAbsentWitness ==
  /\ pc = "done"
  /\ result = "patch"
  /\ patch.cleaned_title = Undefined
  /\ patch.due_date # Undefined

\* ------------------------------------------------------------------------
\* Keywords standing as separate words (SpecRu)
\* ------------------------------------------------------------------------

\* the number of consecutive days `now` ranges over in SpecRu
NumRuDays == 7

\* a date keyword, with its preposition, and the day it names: "off" days
\* after the day of now, or the weekday "wd" strictly after it
RuKeyword(ws, ru, off, wd) == [kw |-> ws, ru |-> ru, off |-> off, wd |-> wd]

\* segodnya  Zavtra  POSLEZAVTRA  vo vtornik  Vo vtornik  v pyatnicu
\* v sredu  subbota
RuKeywords == {
  RuKeyword(W(<<"segodnya">>), TRUE, 0, -1),
  RuKeyword(<<Cap("zavtra")>>, TRUE, 1, -1),
  RuKeyword(<<Up("poslezavtra")>>, TRUE, 2, -1),
  RuKeyword(W(<<"vo", " ", "vtornik">>), TRUE, -1, 2),
  RuKeyword(<<Cap("vo"), SP, A("vtornik")>>, TRUE, -1, 2),
  RuKeyword(W(<<"v", " ", "pyatnicu">>), TRUE, -1, 5),
  RuKeyword(W(<<"v", " ", "sredu">>), TRUE, -1, 3),
  RuKeyword(W(<<"subbota">>), TRUE, -1, 6)}

\* today  Tomorrow  tuesday  FRIDAY
EnKeywords == {
  RuKeyword(W(<<"today">>), FALSE, 0, -1),
  RuKeyword(<<Cap("tomorrow")>>, FALSE, 1, -1),
  RuKeyword(W(<<"tuesday">>), FALSE, -1, 2),
  RuKeyword(<<Up("friday")>>, FALSE, -1, 5)}

\* the words before and after the keyword: none, or words and a space
RuBefore == {<<>>, W(<<"buy", " ">>), <<Cap("moloko"), SP>>}
RuAfter == {<<>>, W(<<" ", "moloko">>), W(<<" ", "buy", " ", "milk">>)}

RuCase(k, pre, suf) == [k |-> k, pre |-> pre, suf |-> suf, text |-> pre \o k.kw \o suf]

RuCases == {RuCase(k, pre, suf) : k \in RuKeywords \cup EnKeywords, pre \in RuBefore, suf \in RuAfter}

RuTexts == {c.text : c \in RuCases}

RuNows == {Instant(CalFirstDay + i, 12 * MsPerHour) : i \in 0..(NumRuDays - 1)}

InitRu == InitWith(RuTexts, RuNows)

SpecRu == InitRu /\ [][Next]_vars

\* the day a keyword names
KeywordDay(k, d0) == IF k.wd >= 0 THEN FirstWeekdayFrom(d0 + 1, k.wd) ELSE d0 + k.off

\* the title left when the keyword and its preposition are taken out
TitleWithout(c) ==
  LET rest == Squeezed(c.pre \o c.suf) IN
  IF rest = <<>> THEN Undefined ELSE Some(<<UpperFirst(Head(rest))>> \o Tail(rest))

\* the keyword of the case was recognised: due_date is its day at 23:59 and
\* the title is the text without the keyword and its preposition
KeywordRecognised(c) ==
  /\ result = "patch"
  /\ patch.due_date # Undefined
  /\ IsoInstant(Val(patch.due_date)) = AtClock(KeywordDay(c.k, now.d), 23, 59)
  /\ patch.cleaned_title = TitleWithout(c)

\* C11: a Russian date keyword (segodnya, zavtra, poslezavtra, a weekday
\* name with its preposition v / vo) that stands as a separate word, in any
\* letter case, sets due_date to its day at 23:59 and is removed, with its
\* preposition, from cleaned_title, as its English counterpart is.
RussianKeywordRecognised ==
  \A c \in RuCases : (pc = "done" /\ text = c.text /\ c.k.ru) => KeywordRecognised(c)

\* the same statement for the English keywords
EnglishKeywordRecognised ==
  \A c \in RuCases : (pc = "done" /\ text = c.text /\ ~c.k.ru) => KeywordRecognised(c)

\* "Zavtra buy milk" ends without a match
RussianKeywordIgnored ==
  /\ pc = "done"
  /\ text = <<Cap("zavtra")>> \o W(<<" ", "buy", " ", "milk">>)
  /\ result = "null"

\* the earliest instant at or after x with minutes, seconds and
\* milliseconds all zero
HourBoundaryFrom(x) ==
  IF x.t % MsPerHour = 0 THEN x ELSE Norm(x.d, ((x.t \div MsPerHour) + 1) * MsPerHour)

\* C12: when an interval recurrence shorter than a day is set and due_date
\* is still unset at the hourly stage, due_date becomes the earliest exact
\* hour boundary at or after now: now itself when it is on an hour boundary,
\* otherwise the start of the next hour.
HourlyDueOnHourBoundary ==
  [][(/\ pc = "hourly"
      /\ patch.repeat_after # Undefined
      /\ Val(patch.repeat_after) < 86400
      /\ patch.due_date = Undefined) =>
       /\ patch'.due_date # Undefined
       /\ IsoInstant(Val(patch'.due_date)) = HourBoundaryFrom(now)]_vars

\* the same statement for the instants without a fraction of a second
HourlyDueOnHourBoundaryWholeSeconds ==
  [][(/\ pc = "hourly"
      /\ patch.repeat_after # Undefined
      /\ Val(patch.repeat_after) < 86400
      /\ patch.due_date = Undefined
      /\ getMilliseconds(now) = 0) =>
       /\ patch'.due_date # Undefined
       /\ IsoInstant(Val(patch'.due_date)) = HourBoundaryFrom(now)]_vars

\* C13: when MonthlyByDay recurrence (repeat_mode = 1) is set and due_date
\* is still unset at the monthly stage, due_date becomes today at the
\* governing time (23:59 when none) unless that instant is strictly before
\* now, and then tomorrow at that time; a finished parse with repeat_mode = 1
\* always carries a due_date.
MonthlyFallbackTodayOrTomorrow ==
  [][/\ (/\ pc = "monthly"
         /\ patch.repeat_mode = Some(1)
         /\ patch.due_date = Undefined) =>
          LET today == AtClock(now.d, GoverningTime[1], GoverningTime[2])
              tomorrow == AtClock(now.d + 1, GoverningTime[1], GoverningTime[2])
          IN /\ patch'.due_date # Undefined
             /\ IsoInstant(Val(patch'.due_date)) = IF Before(today, now) THEN tomorrow ELSE today
     /\ (pc' = "done" /\ patch'.repeat_mode = Some(1)) => patch'.due_date # Undefined]_vars

\* "every month" asked in the last minute of the day: 23:59 of tomorrow
MonthlyFallbackTodayOrTomorrowWitness ==
  /\ pc = "title"
  /\ text = W(<<" ", "x", "kazhdyy", " ", "mesyac", "x">>)
  /\ now.t = MsPerDay - 500
  /\ patch.repeat_mode = Some(1)
  /\ patch.due_date # Undefined
  /\ IsoInstant(Val(patch.due_date)) = AtClock(now.d + 1, 23, 59)

\* C14: in every returned patch repeat_mode is absent, 0 (Interval) or 1
\* (MonthlyByDay), never 3; repeat_after is present exactly when
\* repeat_mode = 0 and so is absent when repeat_mode = 1.
RepeatModeShape ==
  (pc = "done" /\ result = "patch") =>
    /\ patch.repeat_mode \in {Undefined, Some(0), Some(1)}
    /\ patch.repeat_mode # Some(3)
    /\ (patch.repeat_after # Undefined) <=> (patch.repeat_mode = Some(0))
    /\ (patch.repeat_mode = Some(1)) => (patch.repeat_after = Undefined)

\* an interval keyword together with the every-<day-of-month> pattern: the
\* interval recurrence stays
RepeatModeShapeWitness ==
  /\ pc = "done"
  /\ result = "patch"
  /\ test(text, everyDayRe)
  /\ test(text, everyDayOfMonthRe)
  /\ patch.repeat_mode = Some(0)
  /\ patch.repeat_after = Some(86400)

\* ------------------------------------------------------------------------
\* Priority, project and label tokens (SpecTags)
\* ------------------------------------------------------------------------

\* the most tokens joined into one text of SpecTags
MaxTagSeg == 3

\* !3  !Urgent  !srochno  !VAZHNO
PrioTokens == {
  W(<<"!", "3">>),
  <<A("!"), Cap("urgent")>>,
  W(<<"!", "srochno">>),
  <<A("!"), Up("vazhno")>>}

\* +Work  +"Big proj"  +" Home "
ProjectTokens == {
  <<A("+"), Cap("work")>>,
  <<A("+"), A(Q), Cap("big"), SP, A("proj"), A(Q)>>,
  <<A("+"), A(Q), SP, Cap("home"), SP, A(Q)>>}

\* *dev  *Dev  *"My label"
LabelTokens == {
  W(<<"*", "dev">>),
  <<A("*"), Cap("dev")>>,
  <<A("*"), A(Q), Cap("my"), SP, A("label"), A(Q)>>}

TagTokens == PrioTokens \cup ProjectTokens \cup LabelTokens \cup {W(<<"buy">>)}

\* the texts of 1..n tokens, separated by one space
RECURSIVE TagJoined(_)
TagJoined(n) ==
  IF n = 1 THEN TagTokens
  ELSE LET shorter == TagJoined(n - 1) IN
       shorter \cup {t \o <<SP>> \o tk : t \in shorter, tk \in TagTokens}

TagTexts == TagJoined(MaxTagSeg)

InitTags == InitWith(TagTexts, Nows)

SpecTags == InitTags /\ [][Next]_vars

\* a token ends at position i of t: the text ends there or a space follows
TokenEndsAt(t, i) == i = Len(t) \/ IsSpaceAtom(t[i + 1])

\* a token starts at position i of t
TokenStartsAt(t, i) == i = 1 \/ IsSpaceAtom(t[i - 1])

\* the positions of the numeric priority tokens !1 .. !5 of t
NumericPriorityTokens(t) ==
  {i \in 1..(Len(t) - 1) :
     /\ TokenStartsAt(t, i)
     /\ t[i].w = "!"
     /\ IsDigitAtom(t[i + 1])
     /\ DigitVal[t[i + 1].w] \in 1..5
     /\ TokenEndsAt(t, i + 1)}

\* the positions of the keyword priority tokens of t, in any letter case;
\* ascii: only the English keywords
KeywordPriorityTokens(t, ascii) ==
  {i \in 1..(Len(t) - 1) :
     /\ TokenStartsAt(t, i)
     /\ t[i].w = "!"
     /\ t[i + 1].w \in DOMAIN PRIORITY_MAP
     /\ ascii => t[i + 1].w \notin CyrWords
     /\ TokenEndsAt(t, i + 1)}

\* the priority rule over the keyword tokens kws of the text
PriorityRuleFor(kws) ==
  LET nums == NumericPriorityTokens(text) IN
  /\ patch.priority # Undefined => Val(patch.priority) \in 1..5
  /\ nums # {} =>
       /\ patch.priority # Undefined
       /\ \E i \in nums : Val(patch.priority) = DigitVal[text[i + 1].w]
  /\ (nums = {} /\ kws # {}) =>
       /\ patch.priority # Undefined
       /\ \E i \in kws : Val(patch.priority) = PRIORITY_MAP[text[i + 1].w]

\* C16: priority, when present, is in 1..5; with a numeric token !1..!5 in
\* the text the numeric value is taken, wherever a keyword token stands;
\* with only a keyword token (!urgent / !srochno = 5, !important / !vazhno
\* = 4, in any letter case) its dictionary value is taken.
PriorityRule ==
  pc = "done" => PriorityRuleFor(KeywordPriorityTokens(text, FALSE))

\* the same statement for the English keywords only
PriorityRuleEnglish ==
  pc = "done" => PriorityRuleFor(KeywordPriorityTokens(text, TRUE))

\* "!Urgent !3": the number wins over the keyword before it
PriorityNumberWins ==
  /\ pc = "done"
  /\ text = <<A("!"), Cap("urgent"), SP, A("!"), A("3")>>
  /\ patch.priority = Some(3)

\* the positions of the quoted markers <ch>"..." of t (a quote, at least
\* one character, a closing quote)
QuotedMarkers(t, ch) ==
  {i \in 1..(Len(t) - 3) :
     /\ t[i].w = ch
     /\ t[i + 1].w = Q
     /\ t[i + 2].w # Q
     /\ \E j \in (i + 3)..Len(t) : t[j].w = Q}

\* the text between the quotes of the quoted marker at i
QuotedContent(t, i) ==
  LET close == CHOOSE j \in (i + 3)..Len(t) :
                 t[j].w = Q /\ \A k \in (i + 3)..(j - 1) : t[k].w # Q
  IN SubSeq(t, i + 2, close - 1)

\* the positions of the simple markers <ch>token of t
SimpleMarkers(t, ch) ==
  {i \in 1..(Len(t) - 1) : t[i].w = ch /\ IsTokenAtom(t[i + 1])}

\* the token of the simple marker at i: up to the next space or ! + * "
SimpleContent(t, i) ==
  LET last == CHOOSE j \in (i + 1)..Len(t) :
                /\ \A k \in (i + 1)..j : IsTokenAtom(t[k])
                /\ j = Len(t) \/ ~IsTokenAtom(t[j + 1])
  IN SubSeq(t, i + 1, last)

\* the elements of a set of positions, in increasing order
RECURSIVE Ascending(_)
Ascending(S) ==
  IF S = {} THEN <<>>
  ELSE LET lo == CHOOSE i \in S : \A j \in S : i <= j IN <<lo>> \o Ascending(S \ {lo})

\* the labels of the text: the quoted ones left to right, then the simple
\* ones left to right
LabelsOf(t) ==
  LET qs == Ascending(QuotedMarkers(t, "*"))
      ss == Ascending(SimpleMarkers(t, "*"))
  IN [n \in 1..Len(qs) |-> Trimmed(QuotedContent(t, qs[n]))]
       \o [n \in 1..Len(ss) |-> SimpleContent(t, ss[n])]

\* C17: the labels list is every quoted label of the text in text order
\* followed by every simple-token label in text order, one entry for each
\* label marker, duplicates kept and letter case unchanged; no label marker
\* is left in the remaining text.
LabelsInOrder ==
  pc = "done" =>
    LET expected == LabelsOf(text) IN
    /\ patch.labels = IF expected = <<>> THEN Undefined ELSE Some(expected)
    /\ patch.labels # Undefined =>
         Len(Val(patch.labels)) =
           Cardinality(QuotedMarkers(text, "*")) + Cardinality(SimpleMarkers(text, "*"))
    /\ QuotedMarkers(remaining, "*") = {}
    /\ SimpleMarkers(remaining, "*") = {}

\* *dev *"My label" *dev: the quoted label first, the duplicate kept
LabelsInOrderWitness ==
  /\ pc = "done"
  /\ text = W(<<"*", "dev", " ">>) \o <<A("*"), A(Q), Cap("my"), SP, A("label"), A(Q)>>
              \o W(<<" ", "*", "dev">>)
  /\ patch.labels = Some(<< <<Cap("my"), SP, A("label")>>, <<A("dev")>>, <<A("dev")>> >>)

\* C18: at most one project is extracted: with a quoted project marker in
\* the text project_name is the (first) quoted one wherever a simple marker
\* stands, else the first simple one, else absent; the name is trimmed, its
\* letter case unchanged, and only that one marker is erased.
OneProjectQuotedFirst ==
  pc = "done" =>
    LET qs == QuotedMarkers(text, "+")
        ss == SimpleMarkers(text, "+")
        left == Cardinality(QuotedMarkers(remaining, "+"))
                  + Cardinality(SimpleMarkers(remaining, "+"))
    IN /\ qs # {} =>
            patch.project_name = Some(Trimmed(QuotedContent(text, Ascending(qs)[1])))
       /\ (qs = {} /\ ss # {}) =>
            patch.project_name = Some(SimpleContent(text, Ascending(ss)[1]))
       /\ (qs = {} /\ ss = {}) => patch.project_name = Undefined
       /\ (qs # {} \/ ss # {}) => left = Cardinality(qs) + Cardinality(ss) - 1

\* +Work +" Home ": the quoted project wins over the simple one before it,
\* and is trimmed
OneProjectQuotedFirstWitness ==
  /\ pc = "done"
  /\ text = <<A("+"), Cap("work"), SP, A("+"), A(Q), SP, Cap("home"), SP, A(Q)>>
  /\ patch.project_name = Some(<<Cap("home")>>)
  /\ SimpleMarkers(remaining, "+") # {}

\* ------------------------------------------------------------------------
\* Retries of VikunjaClient.request (SpecClient)
\* ------------------------------------------------------------------------

InitClient == InitWith({<<>>}, {NOW})

SpecClient == InitClient /\ [][NextClient]_vars

Is4xx(o) == o.kind = "response" /\ o.status \in 400..499
Is5xx(o) == o.kind = "response" /\ o.status \in 500..599
IsTimeout(o) == o.kind = "abort"

\* the retry rule, for the calls whose outcomes all satisfy P
RetryRuleFor(P(_)) ==
  (\A i \in 1..Len(http.outcomes) : P(http.outcomes[i])) =>
    /\ Len(http.sent) <= Retries + 1
    /\ Len(http.sent) = Len(http.outcomes)
    /\ \A i \in 1..Len(http.sent) : http.sent[i] = http.request
    /\ Len(http.sent) = Retries + 1 => http.state \in {"returned", "thrown"}
    /\ \A i \in 1..Len(http.outcomes) :
         LET o == http.outcomes[i] IN
         /\ i < Len(http.outcomes) => (IsTimeout(o) \/ Is5xx(o))
         /\ Is4xx(o) => (i = Len(http.outcomes) /\ http.state = "thrown")
    /\ (Len(http.outcomes) > 0 /\ Is4xx(http.outcomes[1])) => Len(http.sent) = 1

AnyOutcome(o) == TRUE

\* an outcome whose status and body hold neither a 5 nor "timeout", unless
\* it is a 5xx response
PlainOutcome(o) ==
  ok(o) \/ Is5xx(o) \/ IsTimeout(o) \/ ~isServerError(errorOf(o))

\* C19: request sends the same request at most retries + 1 times and then
\* returns or throws; a further attempt follows only a timeout or a 5xx
\* response; a 4xx response is never retried and fails the call after one
\* attempt, whatever its status code and body.
RetryOnlyTimeoutOr5xx == RetryRuleFor(AnyOutcome)

\* the same statement for the outcomes that are 5xx, timeouts, or failures
\* whose message holds neither a 5 nor "timeout"
RetryOnlyTimeoutOr5xxPlain == RetryRuleFor(PlainOutcome)

\* a 404 with a plain body ends the call after one attempt
NotFoundNotRetried ==
  /\ http.state = "thrown"
  /\ Len(http.sent) = 1
  /\ http.outcomes = <<Outcome("response", 404, <<"not found">>)>>

\* ------------------------------------------------------------------------
\* Label creation by concurrent deliveries (SpecLabels)
\* ------------------------------------------------------------------------

\* the labels of the instance before the deliveries: none, or "Dev"
InitialStores == {{}, {Label(1, <<Cap("dev")>>, 0)}}

InitLabels ==
  /\ text = <<>>
  /\ now = NOW
  /\ remaining = <<>>
  /\ patch = EmptyPatch
  /\ parsedHour = Undefined
  /\ parsedMinute = Undefined
  /\ markerHour = Undefined
  /\ markerMinute = Undefined
  /\ pc = "entry"
  /\ result = "pending"
  /\ lastIndex = <<0, 0>>
  /\ history = <<>>
  /\ http = IdleRequest
  /\ store \in InitialStores
  /\ procs = [d \in Deliveries |-> IdleDelivery]
  /\ hook = IdleHook
  /\ task = NoTask

SpecLabels == InitLabels /\ [][NextLabels]_vars

\* the case-insensitive, trimmed text of a label
KeyOf(title) == Trimmed([i \in 1..Len(title) |-> [title[i] EXCEPT !.c = 0]])

CreatedLabels == {l \in store : l.by # 0}

\* names of one call that share a key resolve to the same id
SameKeySameIdInCall ==
  \A d \in Deliveries :
    \A i, j \in 1..Len(procs[d].ids) :
      KeyOf(procs[d].names[i]) = KeyOf(procs[d].names[j]) => procs[d].ids[i] = procs[d].ids[j]

\* a created label is the only label of its key
CreatedOnlyWhenMissing ==
  \A l \in CreatedLabels : \A other \in store :
    KeyOf(l.title) = KeyOf(other.title) => l.id = other.id

\* C20: label creation is idempotent per case-insensitive, trimmed label
\* text: whatever the interleaving of the deliveries, at most one label is
\* created for a key, a label is created only when the instance has no
\* label of that key, and names of one call that share a key get one id.
LabelCreatedOncePerKey == CreatedOnlyWhenMissing /\ SameKeySameIdInCall

\* the labels the delivery d has created
CreatedBy(d) == {l \in store : l.by = d}

\* of every two deliveries, one had finished creating before the other
\* read the labels
OneAfterTheOther ==
  \A d1, d2 \in Deliveries :
    d1 # d2 => (CreatedBy(d1) \subseteq procs[d2].existing \/ CreatedBy(d2) \subseteq procs[d1].existing)

\* the same statement for the deliveries that do not overlap
LabelCreatedOncePerKeyInSequence == OneAfterTheOther => LabelCreatedOncePerKey

\* two deliveries have each created a label "dev"
LabelCreatedTwice ==
  \E l1, l2 \in CreatedLabels :
    /\ l1.by # l2.by
    /\ l1.title = <<A("dev")>>
    /\ l2.title = <<A("dev")>>

\* ------------------------------------------------------------------------
\* Calls of parseQuickAddRu one after another (SpecCalls)
\* ------------------------------------------------------------------------

\* the most calls whose results are kept
MaxCalls == 3

\* *dev xkazhdyy chasx  /  *"My label" *dev tomorrow  /  buy
CallTexts == {
  W(<<"*", "dev", " ", "x", "kazhdyy", " ", "chas", "x">>),
  <<A("*"), A(Q), Cap("my"), SP, A("label"), A(Q)>> \o W(<<" ", "*", "dev", " ", "tomorrow">>),
  W(<<"buy">>)}

\* noon, and 13:30
CallNows == {NOW, Instant(9, 13 * MsPerHour + 30 * MsPerMinute)}

\* the call returns and parseQuickAddRu is called again: text and now are
\* the new arguments, remaining, patch and the hours and minutes are new
\* locals of the new call
NextCall ==
  /\ pc = "done"
  /\ Len(history) < MaxCalls
  /\ history' = Append(history, [text |-> text, now |-> now, result |-> result,
                                 patch |-> IF result = "patch" THEN patch ELSE EmptyPatch])
  /\ text' \in CallTexts
  /\ now' \in CallNows
  /\ remaining' = text'
  /\ patch' = EmptyPatch
  /\ parsedHour' = Undefined
  /\ parsedMinute' = Undefined
  /\ markerHour' = Undefined
  /\ markerMinute' = Undefined
  /\ pc' = "entry"
  /\ result' = "pending"
  /\ UNCHANGED <<lastIndex, http, store, procs, hook, task>>

NextCalls ==
  \/ Next
  \/ NextCall

InitCalls == InitWith(CallTexts, CallNows)

SpecCalls == InitCalls /\ [][NextCalls]_vars

DueNotBeforeToday ==
  patch.due_date # Undefined =>
    ~Before(IsoInstant(Val(patch.due_date)), Instant(now.d, 0))

\* "today 13:00" asked at 18:30: a due_date on the day of now, before now
DueNotBeforeTodayWitness ==
  /\ pc = "done"
  /\ result = "patch"
  /\ text = W(<<"today", " ", "1", "3", ":", "0", "0">>)
  /\ now.t = 18 * MsPerHour + 30 * MsPerMinute
  /\ IsoInstant(Val(patch.due_date)).d = now.d
  /\ Before(IsoInstant(Val(patch.due_date)), now)

\* ------------------------------------------------------------------------
\* handleWebhook (routes/vikunjaWebhook.ts): one delivery at a time
\* ------------------------------------------------------------------------

\* the number of deliveries handled
MaxHookDeliveries == 2

\* event_name of a delivery
Events == {"task.created", "task.updated"}

\* task.title of the task when it was created
HookTitles == {
  W(<<"buy">>),
  W(<<"!", "3">>),
  W(<<"!", "3", " ", "!", "urgent">>),
  W(<<"*", "dev">>),
  W(<<"tomorrow", " ", "buy", " ", "*", "dev", " ", "+">>) \o <<Cap("work")>>}

\* the due date of a task that has one
SomeDueDate == DueDate("date", toIso(Instant(5, 0)))

\* task.due_date of the task when it was created
InitialDueDates ==
  {DueDate(k, <<>>) : k \in {"absent", "null", "empty", "sentinel"}} \cup {SomeDueDate}

\* the projects of the Vikunja instance, as GET /projects returns them
ProjectLists == { {}, {[id |-> 2, title |-> <<Cap("work")>>]} }

\* task.due_date && task.due_date !== '0001-01-01T00:00:00Z'
dueDateSet(due) == due.kind \notin {"absent", "null", "empty"} /\ due.kind # "sentinel"

\* an entry of the record of the calls a delivery has made to vikunjaClient
Call(op, res, p) == [op |-> op, res |-> res, patch |-> p]

\* the handler returns
Return(h, outcome) == [h EXCEPT !.pc = "idle", !.outcome = outcome]

\* A delivery arrives with the task as the instance has it: reply 200, the
\* payload does not validate -> return; not task.created -> return;
\* due_date already set -> return
HandleWebhook ==
  /\ hook.pc = "idle"
  /\ hook.n < MaxHookDeliveries
  /\ \E valid \in BOOLEAN, event_name \in Events :
       LET h == [IdleHook EXCEPT !.n = hook.n + 1,
                                 !.payload = Payload(valid, event_name, task)]
       IN hook' = IF ~valid THEN Return(h, "invalid")
                  ELSE IF event_name # "task.created" THEN Return(h, "ignored")
                  ELSE IF dueDateSet(task.due_date) THEN Return(h, "skipped")
                  ELSE [h EXCEPT !.pc = "parse"]
  /\ UNCHANGED <<parserVars, history, http, store, procs, task>>

\* parseQuickAddRu(task.title) is called: now = new Date()
ParseTitle ==
  /\ hook.pc = "parse"
  /\ text' = hook.payload.task.title
  /\ now' \in Nows
  /\ remaining' = text'
  /\ patch' = EmptyPatch
  /\ parsedHour' = Undefined
  /\ parsedMinute' = Undefined
  /\ markerHour' = Undefined
  /\ markerMinute' = Undefined
  /\ pc' = "entry"
  /\ result' = "pending"
  /\ hook' = [hook EXCEPT !.pc = "parsing"]
  /\ UNCHANGED <<lastIndex, history, http, store, procs, task>>

\* const patch: TaskPatch = {} and the five if (parsed.x !== undefined)
buildPatch(parsed) ==
  [EmptyTaskPatch EXCEPT !.due_date = parsed.due_date,
                         !.priority = parsed.priority,
                         !.repeat_after = parsed.repeat_after,
                         !.repeat_mode = parsed.repeat_mode,
                         !.title = parsed.cleaned_title]

\* parseQuickAddRu has returned: null -> return; else build the API patch
BuildPatch ==
  /\ hook.pc = "parsing"
  /\ pc = "done"
  /\ hook' = IF result = "null"
             THEN Return([hook EXCEPT !.returned = "null"], "nomarkers")
             ELSE [hook EXCEPT !.pc = "project", !.returned = "patch",
                               !.parsed = patch, !.patch = buildPatch(patch)]
  /\ UNCHANGED <<parserVars, history, http, store, procs, task>>

\* VikunjaClient.resolveProjectId: projects.find(...)?.id
resolveProjectId(projects, name) ==
  LET found == {p \in projects : trim(toLowerCase(p.title)) = trim(toLowerCase(name))}
  IN IF found = {} THEN Undefined ELSE Some((CHOOSE p \in found : TRUE).id)

\* if (parsed.project_name !== undefined): resolveProjectId, project_id when
\* found, a warning when not, an error logged when the call throws
ResolveProject ==
  /\ hook.pc = "project"
  /\ IF hook.parsed.project_name = Undefined
     THEN hook' = [hook EXCEPT !.pc = "update"]
     ELSE \/ \E projects \in ProjectLists :
               LET projectId == resolveProjectId(projects, Val(hook.parsed.project_name))
                   res == IF projectId # Undefined THEN "ok" ELSE "notFound"
               IN hook' = [hook EXCEPT
                    !.pc = "update",
                    !.patch.project_id = projectId,
                    !.calls = Append(@, Call("resolveProjectId", res, EmptyTaskPatch))]
          \/ hook' = [hook EXCEPT
                    !.pc = "update",
                    !.calls = Append(@, Call("resolveProjectId", "failed", EmptyTaskPatch))]
  /\ UNCHANGED <<parserVars, history, http, store, procs, task>>

\* const merged = { ...current, ...patch }, as the instance stores it
merged(current, p) ==
  [current EXCEPT
     !.title = IF p.title # Undefined THEN Val(p.title) ELSE @,
     !.due_date = IF p.due_date # Undefined THEN DueDate("date", Val(p.due_date)) ELSE @,
     !.priority = IF p.priority # Undefined THEN Val(p.priority) ELSE @,
     !.project_id = IF p.project_id # Undefined THEN Val(p.project_id) ELSE @,
     !.repeat_after = IF p.repeat_after # Undefined THEN Val(p.repeat_after) ELSE @,
     !.repeat_mode = IF p.repeat_mode # Undefined THEN Val(p.repeat_mode) ELSE @,
     !.patches = @ + 1]

\* the stage after updateTask: catch (err) { ...; return }
afterUpdateAlwaysLabels(res) == "labels"

afterUpdate(res) == IF res = "ok" THEN "labels" ELSE "idle"

\* vikunjaClient.updateTask(task.id, patch): GET the task, PATCH the merged
\* task; either request may throw
UpdateTask ==
  /\ hook.pc = "update"
  /\ \E res \in {"ok", "getFailed", "patchFailed"} :
       /\ hook' = [hook EXCEPT
            !.pc = afterUpdate(res),
            !.outcome = IF afterUpdate(res) = "idle" THEN "updateFailed" ELSE @,
            !.calls = Append(@, Call("updateTask", res, hook.patch))]
       /\ task' = IF res = "ok" THEN merged(task, hook.patch) ELSE task
  /\ UNCHANGED <<parserVars, history, http, store, procs>>

\* if (parsed.labels && parsed.labels.length > 0): resolveLabels(parsed.labels)
AttachLabels ==
  /\ hook.pc = "labels"
  /\ IF hook.parsed.labels = Undefined \/ Len(Val(hook.parsed.labels)) = 0
     THEN /\ hook' = Return(hook, "done")
          /\ UNCHANGED procs
     ELSE /\ hook' = [hook EXCEPT
               !.pc = "resolving",
               !.calls = Append(@, Call("resolveLabels", "pending", EmptyTaskPatch))]
          /\ procs' = [procs EXCEPT ![1] =
               [IdleDelivery EXCEPT !.pc = "getLabels", !.names = Val(hook.parsed.labels)]]
  /\ UNCHANGED <<parserVars, history, http, store, task>>

\* resolveLabels has returned the ids, or has thrown: catch (err)
LabelsResolved ==
  /\ hook.pc = "resolving"
  /\ procs[1].pc \in {"done", "failed"}
  /\ LET n == Len(hook.calls) IN
     hook' = IF procs[1].pc = "done"
             THEN [hook EXCEPT !.pc = "setLabels", !.labelIds = procs[1].ids,
                               !.calls[n].res = "ok"]
             ELSE Return([hook EXCEPT !.calls[n].res = "failed"], "labelsFailed")
  /\ procs' = [procs EXCEPT ![1] = IdleDelivery]
  /\ UNCHANGED <<parserVars, history, http, store, task>>

\* vikunjaClient.setTaskLabels(task.id, labelIds): Promise.all of one POST
\* per id; it rejects when one of them does, the others still arrive
SetTaskLabels ==
  /\ hook.pc = "setLabels"
  /\ \E arrived \in SUBSET (1..Len(hook.labelIds)) :
       LET res == IF arrived = 1..Len(hook.labelIds) THEN "ok" ELSE "failed" IN
       /\ hook' = Return([hook EXCEPT
            !.calls = Append(@, Call("setTaskLabels", res, EmptyTaskPatch))],
            IF res = "ok" THEN "done" ELSE "labelsFailed")
       /\ task' = [task EXCEPT !.labels = @ \cup {hook.labelIds[i] : i \in arrived}]
  /\ UNCHANGED <<parserVars, history, http, store, procs>>

NextHook ==
  \/ HandleWebhook
  \/ ParseTitle
  \/ Next
  \/ BuildPatch
  \/ ResolveProject
  \/ UpdateTask
  \/ AttachLabels
  \/ GetLabels(1)
  \/ ResolveName(1)
  \/ LabelsResolved
  \/ SetTaskLabels

\* a task has been created, no delivery has arrived yet
InitHook ==
  /\ text = <<>>
  /\ now = NOW
  /\ remaining = <<>>
  /\ patch = EmptyPatch
  /\ parsedHour = Undefined
  /\ parsedMinute = Undefined
  /\ markerHour = Undefined
  /\ markerMinute = Undefined
  /\ pc = "done"
  /\ result = "null"
  /\ lastIndex = <<0, 0>>
  /\ history = <<>>
  /\ http = IdleRequest
  /\ store = {}
  /\ procs = [d \in Deliveries |-> IdleDelivery]
  /\ hook = IdleHook
  /\ \E title \in HookTitles, due \in InitialDueDates : task = Task(title, due)

SpecHook == InitHook /\ [][NextHook]_vars

\* the place of a call in the order of the enrichment steps
stepRank(op) ==
  CASE op = "resolveProjectId" -> 1
    [] op = "updateTask" -> 2
    [] op = "resolveLabels" -> 3
    [] op = "setTaskLabels" -> 4

\* every field the patch carries is the task's field
Applied(p, t) ==
  /\ p.title # Undefined => t.title = Val(p.title)
  /\ p.due_date # Undefined => t.due_date = DueDate("date", Val(p.due_date))
  /\ p.priority # Undefined => t.priority = Val(p.priority)
  /\ p.project_id # Undefined => t.project_id = Val(p.project_id)
  /\ p.repeat_after # Undefined => t.repeat_after = Val(p.repeat_after)
  /\ p.repeat_mode # Undefined => t.repeat_mode = Val(p.repeat_mode)

\* the delivery has got past the project stage
PastProjectStage ==
  \/ hook.pc \in {"labels", "resolving", "setLabels"}
  \/ hook.pc = "idle" /\ hook.outcome \in {"updateFailed", "labelsFailed", "done"}

\* C21: the calls of one delivery are made in the order project resolution,
\* task update, label resolution, label attachment, each at most once; once
\* the parser has returned a patch the task update is called whatever the
\* project resolution did, with project_id exactly when the project was
\* found; labels are resolved or attached only after a task update that
\* succeeded; and after a successful update the task keeps every field of
\* the patch to the end of the delivery, whatever the label calls do (no
\* later call undoes it).
EnrichmentStepsInOrder ==
  LET cs == hook.calls
      I == 1..Len(cs)
  IN /\ \A i, j \in I : i < j => stepRank(cs[i].op) < stepRank(cs[j].op)
     /\ PastProjectStage => \E i \in I : cs[i].op = "updateTask"
     /\ \A i \in I : cs[i].op = "updateTask" =>
          (cs[i].patch.project_id # Undefined <=>
             \E k \in I : cs[k].op = "resolveProjectId" /\ cs[k].res = "ok")
     /\ \A j \in I : cs[j].op \in {"resolveLabels", "setTaskLabels"} =>
          \E i \in I : i < j /\ cs[i].op = "updateTask" /\ cs[i].res = "ok"
     /\ \A i \in I : cs[i].op = "updateTask" /\ cs[i].res = "ok" =>
          Applied(cs[i].patch, task)

\* "tomorrow buy *dev +Work": the project resolution threw, the task was
\* updated without project_id, the label resolution threw, and the task
\* still has the new title and due date
EnrichmentStepsInOrderWitness ==
  /\ hook.pc = "idle"
  /\ hook.outcome = "labelsFailed"
  /\ Len(hook.calls) = 3
  /\ hook.calls[1].op = "resolveProjectId" /\ hook.calls[1].res = "failed"
  /\ hook.calls[2].op = "updateTask" /\ hook.calls[2].res = "ok"
  /\ hook.calls[2].patch.project_id = Undefined
  /\ hook.calls[3].op = "resolveLabels" /\ hook.calls[3].res = "failed"
  /\ task.title = <<Cap("buy")>>
  /\ task.due_date.kind = "date"
  /\ task.project_id = 1
  /\ task.patches = 1

\* the first sentence of C22: a delivery calls vikunjaClient only for a
\* valid task.created payload whose due_date is absent, null, empty or the
\* default, and whose title the parser returned a patch for
NoCallUnlessGuardsPass ==
  hook.calls # <<>> =>
    /\ hook.payload.valid
    /\ hook.payload.event_name = "task.created"
    /\ hook.payload.task.due_date.kind \in {"absent", "null", "empty", "sentinel"}
    /\ hook.returned = "patch"

\* a delivery with a non-default due date makes no call
DatedTaskSkipped ==
  /\ hook.n > 0
  /\ hook.outcome = "skipped"
  /\ hook.payload.event_name = "task.created"
  /\ hook.payload.task.due_date.kind = "date"
  /\ hook.payload.task.patches = 1
  /\ hook.calls = <<>>

\* C22: the handler calls the task store only when the event is
\* task.created, the due_date is absent, empty or the default, and the
\* parser returns a patch; and a task enriched once (one accepted update) is
\* not enriched again on a later delivery.
EnrichedAtMostOnce ==
  /\ NoCallUnlessGuardsPass
  /\ task.patches <= 1

====
